---- MODULE Spec2Model ----
(***************************************************************************)
(* RetailCore: inventory costing and credit-ledger (Khata) engine.         *)
(*                                                                         *)
(* Money is counted in hundredths of a rupee (paisa), so a value with two  *)
(* decimal places is an integer here; a weighted average that is not yet   *)
(* rounded is an exact fraction [n, d].  Timestamps are milliseconds.      *)
(*                                                                         *)
(* Specifications:                                                         *)
(*   Spec     the service layer (db/services): the pure functions of       *)
(*            salesService / inventoryService / reportService applied to   *)
(*            a store that keeps what they return, with the POS cart.      *)
(*   SpecUI   the React pages (POSPage, InventoryPage, ProductGrid,        *)
(*            CartPanel) over the state of InventoryContext.               *)
(*   SpecTx   the product repository: stockIn / stockOut run through       *)
(*            transaction() of the db index module.                        *)
(*   SpecSql  the wa-sqlite database of db/database.ts after seeding,      *)
(*            with the credit-sale script run through executeSQL.          *)
(*   SpecLedger  LedgerPage over LedgerContext with the database ready:    *)
(*            addLedgerEntry calls that overlap, and reads between their   *)
(*            store calls.                                                 *)
(*   SpecFn   the sale and payment functions of salesService called with   *)
(*            any line list, discount and amount.                          *)
(*   SpecReceipt  one stock receipt through each of the receipt paths.     *)
(*   SpecCust  the customer operations of LedgerContext beside             *)
(*            addLedgerEntry, with the database ready or not.              *)
(*   SpecProd  creating and removing products through InventoryContext    *)
(*            and through the product repository.                          *)
(*   SpecReport  the report functions of reportService called between     *)
(*            sales.                                                       *)
(*   SpecCredit  credit sales and payments of a customer near the credit   *)
(*            limit or near a zero balance.                                *)
(*   SpecParams  executeSQL and queryAll of db/database.ts putting the     *)
(*            parameters into the statement text.                          *)
(***************************************************************************)
EXTENDS Integers, Sequences, FiniteSets, TLC

VARIABLES
    products,        \* Product[] of the service layer
    customers,       \* Customer[]
    ledgerEntries,   \* LedgerEntry[]
    sales,           \* Sale[]
    saleItems,       \* SaleItem[]
    stockMovements,  \* StockMovement[]
    cart,            \* CartItem[]: product snapshot, quantity, unitPrice, discount
    now,             \* Date.now()
    last,            \* the last service call: arguments, outcome, prior state
    db,              \* the database connection: open transaction, statements run
    calls            \* addLedgerEntry calls in flight (LedgerContext)

vars == <<products, customers, ledgerEntries, sales, saleItems,
          stockMovements, cart, now, last, db,
                                   calls>>

(***************************************************************************)
(* Bounds                                                                  *)
(***************************************************************************)
MaxOps == 2
MaxCartQty == 2
MaxTicks == 1

(***************************************************************************)
(* Program constants                                                       *)
(***************************************************************************)
Day == 86400000
StartTime == 10 * Day
NoCustomer == 0
NoRef == 0

(***************************************************************************)
(* Sequence and number helpers                                             *)
(***************************************************************************)
Max2(a, b) == IF a >= b THEN a ELSE b

SetMax(S) == CHOOSE x \in S : \A y \in S : y <= x

SetMin(S) == CHOOSE x \in S : \A y \in S : x <= y

RECURSIVE SumSeq(_)
SumSeq(s) == IF s = <<>> THEN 0 ELSE Head(s) + SumSeq(Tail(s))

MapSeq(s, F(_)) == [i \in 1..Len(s) |-> F(s[i])]

\* Array.prototype.find: index of the first element satisfying P, 0 if none
FindIndex(s, P(_)) ==
    LET S == {i \in 1..Len(s) : P(s[i])}
    IN  IF S = {} THEN 0 ELSE SetMin(S)

RECURSIVE Gcd(_, _)
Gcd(a, b) == IF b = 0 THEN a ELSE Gcd(b, a % b)

Abs(x) == IF x < 0 THEN -x ELSE x

\* exact fractions n/d with d > 0, in lowest terms
Rat(n, d) ==
    LET s == IF d < 0 THEN -1 ELSE 1
        g == Gcd(Abs(n), Abs(d))
    IN  IF n = 0 THEN [n |-> 0, d |-> 1]
        ELSE [n |-> (s * n) \div g, d |-> (s * d) \div g]

IntRat(k) == [n |-> k, d |-> 1]

\* Math.round(x * 100) / 100 on a value counted in hundredths:
\* the nearest integer, a half rounding up
MathRound(r) == (2 * r.n + r.d) \div (2 * r.d)

(***************************************************************************)
(* Initial data                                                            *)
(***************************************************************************)
Product(id, quantity, wac, selling, minStock) ==
    [id |-> id, quantity |-> quantity, wac_cost |-> wac, cost_price |-> wac,
     selling_price |-> selling, min_stock_level |-> minStock, is_active |-> TRUE]

\* a persisted product list (the demo list with small stock levels)
InitProducts ==
    << Product(1, 0, 0, 15000, 1),
       Product(2, 2, 3000, 5000, 1) >>

Customer(id, limit, balance) ==
    [id |-> id, credit_limit |-> limit, credit_balance |-> balance,
     is_active |-> TRUE]

DEMO_CUSTOMERS ==
    << Customer(1, 5000000, 1500000),
       Customer(2, 3000000, 850000),
       Customer(3, 2000000, 0),
       Customer(4, 10000000, 4500000) >>

Entry(id, customerId, type, amount, balance, refId, refType, createdAt) ==
    [id |-> id, customer_id |-> customerId, type |-> type, amount |-> amount,
     balance |-> balance, reference_id |-> refId, reference_type |-> refType,
     created_at |-> createdAt]

DEMO_LEDGER_ENTRIES ==
    << Entry(1, 1, "credit", 500000, 500000, NoRef, "", StartTime - 7 * Day),
       Entry(2, 1, "debit", 200000, 300000, NoRef, "", StartTime - 5 * Day),
       Entry(3, 1, "credit", 1200000, 1500000, NoRef, "", StartTime - 2 * Day),
       Entry(4, 2, "credit", 850000, 850000, NoRef, "", StartTime - 3 * Day),
       Entry(5, 4, "credit", 5000000, 5000000, NoRef, "", StartTime - 10 * Day),
       Entry(6, 4, "debit", 500000, 4500000, NoRef, "", StartTime - 4 * Day) >>

(***************************************************************************)
(* salesService                                                            *)
(***************************************************************************)
\* a faulty variant: the line discount is not taken off
LineTotal_NoDiscount(item) == item.quantity * item.unitPrice

LineTotal(item) == (item.quantity * item.unitPrice) - item.discount

LineCost(item) == item.quantity * item.product.wac_cost

calculateSaleTotals(items, discount) ==
    LET subtotal == SumSeq(MapSeq(items, LineTotal))
        netAmount == subtotal - discount
        totalCost == SumSeq(MapSeq(items, LineCost))
    IN  [subtotal |-> subtotal, discount |-> discount, netAmount |-> netAmount,
         totalCost |-> totalCost, grossProfit |-> netAmount - totalCost,
         itemCount |-> SumSeq([i \in 1..Len(items) |-> items[i].quantity])]

\* the items.map(...) of both sale functions; ids are Date.now() + index
SaleItemsOf(items, saleId, t) ==
    [i \in 1..Len(items) |->
        [id |-> t + (i - 1),
         sale_id |-> saleId,
         product_id |-> items[i].product.id,
         quantity |-> items[i].quantity,
         unit_price |-> items[i].unitPrice,
         cost_price |-> items[i].product.wac_cost,
         discount_amount |-> items[i].discount,
         total |-> (items[i].quantity * items[i].unitPrice) - items[i].discount,
         created_at |-> t]]

\* the products.map(...) of both sale functions
SoldProducts(prods, items) ==
    [k \in 1..Len(prods) |->
        LET p == prods[k]
            IsSold(item) == item.product.id = p.id
            j == FindIndex(items, IsSold)
        IN  IF j = 0 THEN p
            ELSE [p EXCEPT !.quantity = Max2(0, p.quantity - items[j].quantity)]]

\* a faulty variant: a cash sale with a customer is booked on credit
createCashSale_OnCredit(params, prods, t) ==
    LET totals == calculateSaleTotals(params.items, params.discount)
        sale == [id |-> t,
                 customer_id |-> params.customerId,
                 subtotal |-> totals.subtotal,
                 discount_amount |-> params.discount,
                 total |-> totals.netAmount,
                 payment_method |-> "cash",
                 payment_received |-> params.amountPaid,
                 change_amount |-> Max2(0, params.amountPaid - totals.netAmount),
                 status |-> "completed",
                 created_at |-> t]
    IN  [threw |-> FALSE, error |-> "",
         sale |-> sale,
         saleItems |-> SaleItemsOf(params.items, sale.id, t),
         change |-> sale.change_amount,
         updatedProducts |-> SoldProducts(prods, params.items),
         newLedgerEntry |-> Entry(t, params.customerId, "credit",
                                  totals.netAmount, totals.netAmount,
                                  sale.id, "sale", t)]

createCashSale(params, prods, t) ==
    LET totals == calculateSaleTotals(params.items, params.discount)
        change == Max2(0, params.amountPaid - totals.netAmount)
        sale == [id |-> t,
                 customer_id |-> params.customerId,
                 subtotal |-> totals.subtotal,
                 discount_amount |-> params.discount,
                 total |-> totals.netAmount,
                 payment_method |-> "cash",
                 payment_received |-> params.amountPaid,
                 change_amount |-> change,
                 status |-> "completed",
                 created_at |-> t]
    IN  [threw |-> FALSE, error |-> "",
         sale |-> sale,
         saleItems |-> SaleItemsOf(params.items, sale.id, t),
         change |-> change,
         updatedProducts |-> SoldProducts(prods, params.items)]

\* Math.max(...ledgerEntries.map(e => e.id), 0) + 1
NextLedgerId(entries) ==
    SetMax({entries[i].id : i \in 1..Len(entries)} \cup {0}) + 1

HasId(s, id) == \E i \in 1..Len(s) : s[i].id = id

ById(s, id) == s[SetMin({i \in 1..Len(s) : s[i].id = id})]

\* a faulty variant: the entry's balance forgets what the customer owed
KhataNewBalance_Overwrite(customer, netAmount) == netAmount

\* the balance a credit sale leaves: the debt grows by the sale total
KhataNewBalance(customer, netAmount) == customer.credit_balance + netAmount

createKhataSale(params, prods, custs, entries, t) ==
    IF ~HasId(custs, params.customerId)
    THEN [threw |-> TRUE, error |-> "CustomerNotFound"]
    ELSE
    LET customer == ById(custs, params.customerId)
        totals == calculateSaleTotals(params.items, params.discount)
        sale == [id |-> t,
                 customer_id |-> params.customerId,
                 subtotal |-> totals.subtotal,
                 discount_amount |-> params.discount,
                 total |-> totals.netAmount,
                 payment_method |-> "credit",
                 payment_received |-> 0,
                 change_amount |-> 0,
                 status |-> "completed",
                 created_at |-> t]
        newBalance == KhataNewBalance(customer, totals.netAmount)
        newLedgerEntry == Entry(NextLedgerId(entries), params.customerId,
                                "credit", totals.netAmount, newBalance,
                                sale.id, "sale", t)
    IN  [threw |-> FALSE, error |-> "",
         sale |-> sale,
         saleItems |-> SaleItemsOf(params.items, sale.id, t),
         change |-> 0,
         updatedProducts |-> SoldProducts(prods, params.items),
         updatedCustomers |->
            [k \in 1..Len(custs) |->
                IF custs[k].id # params.customerId THEN custs[k]
                ELSE [custs[k] EXCEPT !.credit_balance = newBalance]],
         newLedgerEntry |-> newLedgerEntry]

\* a faulty variant: an overpayment is cut off at a balance of zero
PaymentNewBalance_Clamped(customer, amount) ==
    Max2(0, customer.credit_balance - amount)

\* a faulty variant: a payment raises the debt
PaymentNewBalance_Added(customer, amount) == customer.credit_balance + amount

\* the balance a payment leaves: the debt shrinks by the amount paid
PaymentNewBalance(customer, amount) == customer.credit_balance - amount

\* a faulty variant: a payment for an unknown customer is booked anyway
recordKhataPayment_Unchecked(customerId, amount, custs, entries, t) ==
    LET prior == IF HasId(custs, customerId)
                 THEN ById(custs, customerId).credit_balance ELSE 0
    IN  [threw |-> FALSE, error |-> "",
         updatedCustomers |->
            [k \in 1..Len(custs) |->
                IF custs[k].id # customerId THEN custs[k]
                ELSE [custs[k] EXCEPT !.credit_balance = prior - amount]],
         newLedgerEntry |-> Entry(NextLedgerId(entries), customerId, "debit",
                                  amount, prior - amount, NoRef, "payment", t)]

recordKhataPayment(customerId, amount, custs, entries, t) ==
    IF ~HasId(custs, customerId)
    THEN [threw |-> TRUE, error |-> "CustomerNotFound"]
    ELSE
    LET customer == ById(custs, customerId)
        newBalance == PaymentNewBalance(customer, amount)
    IN  [threw |-> FALSE, error |-> "",
         updatedCustomers |->
            [k \in 1..Len(custs) |->
                IF custs[k].id # customerId THEN custs[k]
                ELSE [custs[k] EXCEPT !.credit_balance = newBalance]],
         newLedgerEntry |-> Entry(NextLedgerId(entries), customerId, "debit",
                                  amount, newBalance, NoRef, "payment", t)]

(***************************************************************************)
(* inventoryService and the WAC helper of the db index module              *)
(***************************************************************************)
\* a faulty variant: the plain average of the old WAC and the new cost
calculateWAC_Unweighted(currentQuantity, currentWAC, newQuantity, newCost) ==
    Rat(currentWAC.n + (newCost * currentWAC.d), 2 * currentWAC.d)

calculateWAC(currentQuantity, currentWAC, newQuantity, newCost) ==
    LET totalQuantity == currentQuantity + newQuantity
        totalValueN == (currentQuantity * currentWAC.n)
                       + (newQuantity * newCost * currentWAC.d)
    IN  IF totalQuantity = 0 THEN IntRat(0)
        ELSE Rat(totalValueN, currentWAC.d * totalQuantity)

calculateNewWAC(currentStock, currentWAC, newQuantity, newCost) ==
    IF currentStock + newQuantity <= 0 THEN IntRat(0)
    ELSE calculateWAC(currentStock, currentWAC, newQuantity, newCost)

performStockIn(prods, params, t) ==
    IF ~HasId(prods, params.productId)
    THEN [threw |-> TRUE, error |-> "ProductNotFound"]
    ELSE
    LET product == ById(prods, params.productId)
        previousStock == product.quantity
        previousWAC == product.wac_cost
        newStock == previousStock + params.quantity
        newWAC == calculateNewWAC(previousStock, IntRat(previousWAC),
                                  params.quantity, params.unitCost)
        updatedProduct == [product EXCEPT !.quantity = newStock,
                                          !.wac_cost = MathRound(newWAC),
                                          !.cost_price = params.unitCost]
        stockMovement == [id |-> t, product_id |-> params.productId,
                          type |-> "purchase", quantity |-> params.quantity,
                          unit_cost |-> params.unitCost,
                          reference_type |-> "PURCHASE", created_at |-> t]
    IN  [threw |-> FALSE, error |-> "",
         updatedProducts |->
            [k \in 1..Len(prods) |->
                IF prods[k].id = params.productId THEN updatedProduct
                ELSE prods[k]],
         product |-> updatedProduct,
         stockMovement |-> stockMovement,
         previousStock |-> previousStock,
         previousWAC |-> previousWAC,
         newStock |-> newStock,
         newWAC |-> newWAC]

(***************************************************************************)
(* reportService                                                           *)
(***************************************************************************)
NoRange == [all |-> TRUE, startDate |-> 0, endDate |-> 0]

DateRange(startDate, endDate) ==
    [all |-> FALSE, startDate |-> startDate, endDate |-> endDate]

\* a faulty variant: the report charges the product's WAC of today
ItemCostAtCurrentWac(item) ==
    IF HasId(products, item.product_id)
    THEN ById(products, item.product_id).wac_cost
    ELSE item.cost_price

\* the cost a report charges for a sold line: the snapshot stored in the line
ItemCostAtSale(item) == item.cost_price

\* a faulty variant: the sale-level discounts are not taken off
NetProfitOf_GrossOnly(grossProfit, totalSaleDiscounts) == grossProfit

\* const netProfit = grossProfit - totalSaleDiscounts
NetProfitOf(grossProfit, totalSaleDiscounts) ==
    grossProfit - totalSaleDiscounts

calculateNetProfit(allSales, allItems, dateRange) ==
    LET InRange(s) == dateRange.all
                      \/ (s.created_at >= dateRange.startDate
                          /\ s.created_at <= dateRange.endDate)
        filteredSales == SelectSeq(allSales,
                            LAMBDA s : s.status = "completed" /\ InRange(s))
        saleIds == {filteredSales[i].id : i \in 1..Len(filteredSales)}
        filteredItems == SelectSeq(allItems, LAMBDA it : it.sale_id \in saleIds)
        Revenue(it) == it.quantity * it.unit_price
        Cost(it) == it.quantity * ItemCostAtSale(it)
        ItemDiscount(it) == it.discount_amount
        Qty(it) == it.quantity
        SaleDiscount(s) == s.discount_amount
        totalRevenue == SumSeq(MapSeq(filteredItems, Revenue))
        totalCost == SumSeq(MapSeq(filteredItems, Cost))
        totalItemDiscounts == SumSeq(MapSeq(filteredItems, ItemDiscount))
        totalSaleDiscounts == SumSeq(MapSeq(filteredSales, SaleDiscount))
        grossProfit == totalRevenue - totalCost - totalItemDiscounts
    IN  [grossProfit |-> grossProfit,
         totalRevenue |-> totalRevenue,
         totalCost |-> totalCost,
         totalDiscounts |-> totalItemDiscounts + totalSaleDiscounts,
         netProfit |-> NetProfitOf(grossProfit, totalSaleDiscounts),
         transactionCount |-> Len(filteredSales),
         itemsSold |-> SumSeq(MapSeq(filteredItems, Qty))]

\* SUM(DISTINCT x): every distinct value of the set once
RECURSIVE SumDistinct(_)
SumDistinct(S) ==
    IF S = {} THEN 0
    ELSE LET x == CHOOSE y \in S : TRUE IN x + SumDistinct(S \ {x})

\* SQL_QUERIES.netProfit: the aggregate over sale_items INNER JOIN sales ON
\* si.sale_id = s.id, WHERE s.created_at >= ? AND s.created_at < ? AND
\* s.status = 'completed'; a row of the join is a pair <<line, sale>>
sqlNetProfit(allSales, allItems, startDate, endDate) ==
    LET rows == {<<j, i>> \in (1..Len(allItems)) \X (1..Len(allSales)) :
                    /\ allItems[j].sale_id = allSales[i].id
                    /\ allSales[i].created_at >= startDate
                    /\ allSales[i].created_at < endDate
                    /\ allSales[i].status = "completed"}
        items == {r[1] : r \in rows}
        \* SUM(expr) over the rows of the join, line by line
        SumRows(F(_)) ==
            SumSeq([j \in 1..Len(allItems) |->
                       Cardinality({r \in rows : r[1] = j}) * F(allItems[j])])
        Margin(it) == it.quantity * (it.unit_price - it.cost_price)
        Revenue(it) == it.quantity * it.unit_price
        Cost(it) == it.quantity * it.cost_price
        ItemDiscount(it) == it.discount_amount
        Qty(it) == it.quantity
    IN  [grossProfit |-> SumRows(Margin),
         totalRevenue |-> SumRows(Revenue),
         totalCost |-> SumRows(Cost),
         itemDiscounts |-> SumRows(ItemDiscount),
         saleDiscounts |->
             SumDistinct({allSales[r[2]].discount_amount : r \in rows}),
         transactionCount |-> Cardinality({allSales[r[2]].id : r \in rows}),
         itemsSold |-> SumRows(Qty)]

\* sale.created_at.slice(0, 10): the calendar date of an ISO timestamp
DateKey(t) == t \div Day

\* the dates of a set, latest first
RECURSIVE DatesDescending(_)
DatesDescending(S) ==
    IF S = {} THEN <<>>
    ELSE <<SetMax(S)>> \o DatesDescending(S \ {SetMax(S)})

\* getDailyProfitBreakdown: the report grouped by calendar date, latest
\* date first; the percentage profitMargin, derived from the entry's own
\* netProfit and revenue, is left out as in calculateNetProfit
getDailyProfitBreakdown(allSales, allItems, dateRange) ==
    LET InRange(s) == dateRange.all
                      \/ (s.created_at >= dateRange.startDate
                          /\ s.created_at <= dateRange.endDate)
        filteredSales == SelectSeq(allSales,
                            LAMBDA s : s.status = "completed" /\ InRange(s))
        SaleRevenue(s) ==
            SumSeq([j \in 1..Len(allItems) |->
                       IF allItems[j].sale_id = s.id
                       THEN allItems[j].quantity * allItems[j].unit_price
                              - allItems[j].discount_amount
                       ELSE 0])
        SaleCost(s) ==
            SumSeq([j \in 1..Len(allItems) |->
                       IF allItems[j].sale_id = s.id
                       THEN allItems[j].quantity * allItems[j].cost_price
                       ELSE 0])
        SaleDiscount(s) == s.discount_amount
        DayEntry(date) ==
            LET ofDay == SelectSeq(filteredSales,
                            LAMBDA s : DateKey(s.created_at) = date)
                revenue == SumSeq(MapSeq(ofDay, SaleRevenue))
                cost == SumSeq(MapSeq(ofDay, SaleCost))
                netProfit == revenue - cost - SumSeq(MapSeq(ofDay, SaleDiscount))
            IN  [date |-> date,
                 revenue |-> revenue,
                 cost |-> cost,
                 grossProfit |-> revenue - cost,
                 netProfit |-> netProfit,
                 transactionCount |-> Len(ofDay)]
        dates == {DateKey(filteredSales[i].created_at) :
                     i \in 1..Len(filteredSales)}
    IN  MapSeq(DatesDescending(dates), DayEntry)

\* Array.prototype.sort with (a, b) => time(b) - time(a): a stable sort,
\* latest first, entries of one timestamp staying in the order they came in
RECURSIVE SortByCreatedAtDesc(_)
SortByCreatedAtDesc(s) ==
    IF s = <<>> THEN <<>>
    ELSE LET e == s[Len(s)]
             sorted == SortByCreatedAtDesc(SubSeq(s, 1, Len(s) - 1))
             k == Cardinality({i \in 1..Len(sorted) :
                                  sorted[i].created_at >= e.created_at})
         IN  SubSeq(sorted, 1, k) \o <<e>> \o SubSeq(sorted, k + 1, Len(sorted))

getCustomerLedgerStatement(customerId, entries) ==
    SortByCreatedAtDesc(
        SelectSeq(entries, LAMBDA e : e.customer_id = customerId))

\* Array.prototype.sort with (a, b) => a.currentStock - b.currentStock:
\* a stable sort, lowest stock first
RECURSIVE SortByStockAsc(_)
SortByStockAsc(s) ==
    IF s = <<>> THEN <<>>
    ELSE LET e == s[Len(s)]
             sorted == SortByStockAsc(SubSeq(s, 1, Len(s) - 1))
             k == Cardinality({i \in 1..Len(sorted) :
                                  sorted[i].currentStock <= e.currentStock})
         IN  SubSeq(sorted, 1, k) \o <<e>> \o SubSeq(sorted, k + 1, Len(sorted))

\* getLowStockAlerts, and the stockAlerts of ReportsProvider
getLowStockAlerts(prods) ==
    LET low == SelectSeq(prods,
                   LAMBDA p : p.is_active /\ p.quantity <= p.min_stock_level)
        Alert(p) ==
            [productId |-> p.id,
             currentStock |-> p.quantity,
             minStockLevel |-> p.min_stock_level,
             unitsBelowMinimum |-> p.min_stock_level - p.quantity,
             status |-> IF p.quantity = 0 THEN "out_of_stock"
                        ELSE IF 2 * p.quantity <= p.min_stock_level
                             THEN "critical"
                             ELSE "low_stock"]
    IN  SortByStockAsc(MapSeq(low, Alert))

\* Array.prototype.sort with (a, b) => b.amountOwed - a.amountOwed:
\* a stable sort, largest debt first
RECURSIVE SortByAmountOwedDesc(_)
SortByAmountOwedDesc(s) ==
    IF s = <<>> THEN <<>>
    ELSE LET e == s[Len(s)]
             sorted == SortByAmountOwedDesc(SubSeq(s, 1, Len(s) - 1))
             k == Cardinality({i \in 1..Len(sorted) :
                                  sorted[i].amountOwed >= e.amountOwed})
         IN  SubSeq(sorted, 1, k) \o <<e>> \o SubSeq(sorted, k + 1, Len(sorted))

\* a faulty variant: customers who owe nothing, or are inactive, are listed
getOutstandingBalances_Everyone(custs) ==
    SortByAmountOwedDesc(
        [k \in 1..Len(custs) |->
            [customerId |-> custs[k].id,
             amountOwed |-> custs[k].credit_balance,
             creditLimit |-> custs[k].credit_limit,
             remainingCredit |-> custs[k].credit_limit
                                   - custs[k].credit_balance]])

getOutstandingBalances(custs) ==
    LET owing == SelectSeq(custs,
                     LAMBDA c : c.is_active /\ c.credit_balance > 0)
        Balance(c) ==
            [customerId |-> c.id,
             amountOwed |-> c.credit_balance,
             creditLimit |-> c.credit_limit,
             remainingCredit |-> c.credit_limit - c.credit_balance]
    IN  SortByAmountOwedDesc(MapSeq(owing, Balance))

(***************************************************************************)
(* The cart (InventoryContext)                                             *)
(***************************************************************************)
\* addToCart; the sale functions read unitPrice, which a caller fills with
\* the product's selling price (as cartSubtotal does)
addToCart(prev, product, quantity) ==
    LET Same(item) == item.product.id = product.id
    IN  IF FindIndex(prev, Same) # 0
        THEN [i \in 1..Len(prev) |->
                IF prev[i].product.id = product.id
                THEN [prev[i] EXCEPT !.quantity = prev[i].quantity + quantity]
                ELSE prev[i]]
        ELSE Append(prev, [product |-> product, quantity |-> quantity,
                           unitPrice |-> product.selling_price,
                           discount |-> 0])

CartQty(c) == SumSeq([i \in 1..Len(c) |-> c[i].quantity])

(***************************************************************************)
(* Spec: the service layer                                                 *)
(***************************************************************************)
\* inputs: <<customerId, discount, amountPaid>>, <<customerId, discount>>,
\* <<customerId, amount>>, <<quantity, unitCost>>; customer and product 9
\* do not exist
ProductArgs == {1, 2, 9}
CartQtys == {1, 2}
CashSaleArgs == {<<NoCustomer, 0, 20000>>, <<1, 500, 5000>>}
KhataSaleArgs == {<<3, 0>>, <<1, 500>>, <<9, 0>>}
PaymentArgs == {<<3, 4000>>, <<1, 2000000>>, <<9, 4000>>}
ReceiptArgs == {<<10, 10000>>, <<10, 12000>>, <<1, 12000>>}

ReportRanges ==
    {NoRange} \cup {DateRange(a, b) : a, b \in StartTime..(StartTime + 1)}

PreState ==
    [products |-> products, customers |-> customers,
     ledgerEntries |-> ledgerEntries, sales |-> sales,
     saleItems |-> saleItems, stockMovements |-> stockMovements,
     report |-> [r \in ReportRanges |-> calculateNetProfit(sales, saleItems, r)]]

Call(op, ok, error) ==
    [op |-> op, ok |-> ok, error |-> error,
     customerId |-> NoCustomer, amount |-> 0, discount |-> 0,
     productId |-> 0, quantity |-> 0, unitCost |-> 0,
     items |-> <<>>, pre |-> PreState]

NoCall == [op |-> "none", ok |-> TRUE, error |-> "",
           customerId |-> NoCustomer, amount |-> 0, discount |-> 0,
           productId |-> 0, quantity |-> 0, unitCost |-> 0,
           items |-> <<>>, pre |-> <<>>]

\* no statement has run on the connection
NoDb == [inTransaction |-> FALSE, statements |-> <<>>]

NPayments ==
    Cardinality({i \in 1..Len(ledgerEntries) :
                    ledgerEntries[i].reference_type = "payment"})

NOps == Len(sales) + Len(stockMovements) + NPayments

Init ==
    /\ products = InitProducts
    /\ customers = DEMO_CUSTOMERS
    /\ ledgerEntries = DEMO_LEDGER_ENTRIES
    /\ sales = <<>>
    /\ saleItems = <<>>
    /\ stockMovements = <<>>
    /\ cart = <<>>
    /\ now = StartTime
    /\ last = NoCall
    /\ db = NoDb
    /\ calls = <<>>

Tick ==
    /\ now < StartTime + MaxTicks
    /\ last.op # "none"
    /\ now' = now + 1
    /\ last' = NoCall
    /\ UNCHANGED <<products, customers, ledgerEntries, sales, saleItems,
                   stockMovements, cart, db,
                                   calls>>

AddToCart ==
    \E k \in 1..Len(products), q \in CartQtys :
        /\ CartQty(cart) + q <= MaxCartQty
        /\ cart' = addToCart(cart, products[k], q)
        /\ last' = NoCall
        /\ UNCHANGED <<products, customers, ledgerEntries, sales, saleItems,
                       stockMovements, now, db,
                                   calls>>

CreateCashSale ==
    \E a \in CashSaleArgs :
        LET c == a[1]
            d == a[2]
            paid == a[3]
            params == [items |-> cart, discount |-> d, amountPaid |-> paid,
                       customerId |-> c]
            r == createCashSale(params, products, now)
        IN  /\ NOps < MaxOps
            /\ cart # <<>>
            /\ sales' = Append(sales, r.sale)
            /\ saleItems' = saleItems \o r.saleItems
            /\ products' = r.updatedProducts
            /\ last' = [Call("createCashSale", TRUE, "") EXCEPT
                          !.customerId = c, !.discount = d, !.amount = paid,
                          !.items = cart]
            /\ cart' = <<>>
            /\ UNCHANGED <<customers, ledgerEntries, stockMovements, now, db,
                                   calls>>

CreateKhataSale ==
    \E a \in KhataSaleArgs :
        LET c == a[1]
            d == a[2]
            params == [items |-> cart, discount |-> d, amountPaid |-> 0,
                       customerId |-> c]
            r == createKhataSale(params, products, customers, ledgerEntries, now)
        IN  /\ NOps < MaxOps
            /\ cart # <<>>
            /\ IF r.threw
               THEN /\ last' = [Call("createKhataSale", FALSE, r.error) EXCEPT
                                  !.customerId = c, !.discount = d, !.items = cart]
                    /\ UNCHANGED <<products, customers, ledgerEntries, sales,
                                   saleItems, cart>>
               ELSE /\ sales' = Append(sales, r.sale)
                    /\ saleItems' = saleItems \o r.saleItems
                    /\ products' = r.updatedProducts
                    /\ customers' = r.updatedCustomers
                    /\ ledgerEntries' = Append(ledgerEntries, r.newLedgerEntry)
                    /\ cart' = <<>>
                    /\ last' = [Call("createKhataSale", TRUE, "") EXCEPT
                                  !.customerId = c, !.discount = d, !.items = cart]
            /\ UNCHANGED <<stockMovements, now, db,
                                   calls>>

RecordKhataPayment ==
    \E arg \in PaymentArgs :
        LET c == arg[1]
            a == arg[2]
            r == recordKhataPayment(c, a, customers, ledgerEntries, now)
        IN  /\ NOps < MaxOps
            /\ IF r.threw
               THEN /\ last' = [Call("recordKhataPayment", FALSE, r.error) EXCEPT
                                  !.customerId = c, !.amount = a]
                    /\ UNCHANGED <<customers, ledgerEntries>>
               ELSE /\ customers' = r.updatedCustomers
                    /\ ledgerEntries' = Append(ledgerEntries, r.newLedgerEntry)
                    /\ last' = [Call("recordKhataPayment", TRUE, "") EXCEPT
                                  !.customerId = c, !.amount = a]
            /\ UNCHANGED <<products, sales, saleItems, stockMovements, cart, now, db,
                                   calls>>

PerformStockIn ==
    \E pid \in ProductArgs, a \in ReceiptArgs :
        LET q == a[1]
            cost == a[2]
            params == [productId |-> pid, quantity |-> q, unitCost |-> cost]
            r == performStockIn(products, params, now)
        IN  /\ NOps < MaxOps
            /\ IF r.threw
               THEN /\ last' = [Call("performStockIn", FALSE, r.error) EXCEPT
                                  !.productId = pid, !.quantity = q,
                                  !.unitCost = cost]
                    /\ UNCHANGED <<products, stockMovements>>
               ELSE /\ products' = r.updatedProducts
                    /\ stockMovements' = Append(stockMovements, r.stockMovement)
                    /\ last' = [Call("performStockIn", TRUE, "") EXCEPT
                                  !.productId = pid, !.quantity = q,
                                  !.unitCost = cost]
            /\ UNCHANGED <<customers, ledgerEntries, sales, saleItems, cart, now, db,
                                   calls>>

Next ==
    \/ Tick
    \/ AddToCart
    \/ CreateCashSale
    \/ CreateKhataSale
    \/ RecordKhataPayment
    \/ PerformStockIn

Spec == Init /\ [][Next]_vars

(***************************************************************************)
(* Properties of the service layer (Spec)                                  *)
(***************************************************************************)
IsSale == last.op \in {"createCashSale", "createKhataSale"}

\* some line asks for more than the product store holds
Oversold(items, prods) ==
    \E i \in 1..Len(items) :
        /\ HasId(prods, items[i].product.id)
        /\ items[i].quantity > ById(prods, items[i].product.id).quantity

StoreUnchanged ==
    /\ products = last.pre.products
    /\ customers = last.pre.customers
    /\ ledgerEntries = last.pre.ledgerEntries
    /\ sales = last.pre.sales
    /\ saleItems = last.pre.saleItems
    /\ stockMovements = last.pre.stockMovements

\* the sale items the last sale appended
NewSaleItems == SubSeq(saleItems, Len(last.pre.saleItems) + 1, Len(saleItems))

\* C3: a sale with a line whose quantity exceeds the product's stock fails
\* with an insufficient-stock error and leaves the whole store as it was.
C3_OversoldSaleRejected ==
    (IsSale /\ Oversold(last.items, last.pre.products))
        => (~last.ok /\ last.error = "InsufficientStock" /\ StoreUnchanged)

\* C6: every line of a recorded sale stores as cost_price the wac_cost the
\* product has in the product store when the sale is recorded.
C6_CostIsStoreWacAtSale ==
    (IsSale /\ last.ok) =>
        /\ Len(NewSaleItems) = Len(last.items)
        /\ \A i \in 1..Len(NewSaleItems) :
              NewSaleItems[i].cost_price =
                  ById(last.pre.products, NewSaleItems[i].product_id).wac_cost

\* C7: no call changes a sale item that exists, and a stock receipt leaves
\* the profit report of every range as it was before the receipt.
C7_ProfitStableUnderRecosting ==
    (last.op # "none") =>
        /\ Len(saleItems) >= Len(last.pre.saleItems)
        /\ \A i \in 1..Len(last.pre.saleItems) :
              saleItems[i] = last.pre.saleItems[i]
        /\ (last.op = "performStockIn") =>
              \A r \in ReportRanges :
                  LET after == calculateNetProfit(sales, saleItems, r)
                      before == last.pre.report[r]
                  IN  /\ after.netProfit = before.netProfit
                      /\ after.totalCost = before.totalCost
                      /\ after.totalRevenue = before.totalRevenue

\* a receipt re-costed a product of which a sold line keeps another cost
C7_Witness ==
    /\ last.op = "performStockIn"
    /\ last.ok
    /\ \E i \in 1..Len(saleItems) :
          /\ saleItems[i].product_id = last.productId
          /\ saleItems[i].quantity > 0
          /\ saleItems[i].cost_price # ById(products, last.productId).wac_cost
          /\ ById(products, last.productId).wac_cost
                # ById(last.pre.products, last.productId).wac_cost

\* W is num/den rounded to the nearest integer, a half rounding up (den > 0)
IsRounded(W, num, den) ==
    /\ (2 * den * W) - den <= 2 * num
    /\ 2 * num < (2 * den * W) + den

LastEntry == ledgerEntries[Len(ledgerEntries)]

LastSale == sales[Len(sales)]

OthersUnchanged(c) ==
    /\ Len(customers) = Len(last.pre.customers)
    /\ \A k \in 1..Len(customers) :
          customers[k].id # c => customers[k] = last.pre.customers[k]

KhataSaleEffects(entryType) ==
    (last.op = "createKhataSale" /\ last.ok) =>
        LET c == last.customerId
            prior == ById(last.pre.customers, c).credit_balance
            T == LastSale.total
        IN  /\ Len(sales) = Len(last.pre.sales) + 1
            /\ ledgerEntries = Append(last.pre.ledgerEntries, LastEntry)
            /\ LastEntry.customer_id = c
            /\ LastEntry.type = entryType
            /\ LastEntry.amount = T
            /\ LastEntry.balance = prior + T
            /\ LastEntry.reference_id = LastSale.id
            /\ LastEntry.reference_type = "sale"
            /\ ById(customers, c).credit_balance = prior + T
            /\ LastSale.customer_id = c
            /\ LastSale.payment_method = "credit"
            /\ LastSale.payment_received = 0
            /\ T = SumSeq([i \in 1..Len(last.items) |->
                            (last.items[i].quantity * last.items[i].unitPrice)
                            - last.items[i].discount]) - last.discount
            /\ OthersUnchanged(c)

PaymentEffects(entryType) ==
    (last.op = "recordKhataPayment" /\ last.ok) =>
        LET c == last.customerId
            prior == ById(last.pre.customers, c).credit_balance
        IN  /\ ledgerEntries = Append(last.pre.ledgerEntries, LastEntry)
            /\ LastEntry.customer_id = c
            /\ LastEntry.type = entryType
            /\ LastEntry.amount = last.amount
            /\ LastEntry.balance = prior - last.amount
            /\ ById(customers, c).credit_balance = prior - last.amount
            /\ OthersUnchanged(c)

C39_SaleIdsDistinct ==
    /\ \A i, j \in 1..Len(sales) : i # j => sales[i].id # sales[j].id
    /\ \A i, j \in 1..Len(saleItems) :
          i # j => saleItems[i].id # saleItems[j].id
    /\ \A j \in 1..Len(saleItems) :
          Cardinality({i \in 1..Len(sales) :
                          sales[i].id = saleItems[j].sale_id}) = 1

(***************************************************************************)
(* SpecUI: the pages over InventoryContext                                 *)
(***************************************************************************)
MaxUiCartQty == 3
MaxUiStockIns == 1

\* the context's product list; wac_cost is a JavaScript number, which
\* handleStockInSubmit leaves unrounded: an exact fraction here
UiProducts ==
    [k \in 1..Len(InitProducts) |->
        [InitProducts[k] EXCEPT !.wac_cost = IntRat(InitProducts[k].wac_cost)]]

UiReceiptArgs == {<<1, 12000>>, <<2, 4000>>}

\* ProductGrid: the products the grid offers
filteredProducts(prods) ==
    SelectSeq(prods, LAMBDA p : p.is_active /\ p.quantity > 0)

\* POSPage.handleAddToCart
handleAddToCart(prev, product) == addToCart(prev, product, 1)

removeFromCart(prev, productId) ==
    SelectSeq(prev, LAMBDA item : item.product.id # productId)

updateCartItemQuantity(prev, productId, quantity) ==
    IF quantity <= 0 THEN removeFromCart(prev, productId)
    ELSE [i \in 1..Len(prev) |->
            IF prev[i].product.id = productId
            THEN [prev[i] EXCEPT !.quantity = quantity]
            ELSE prev[i]]

\* the setProducts(...) of POSPage.handleCheckoutComplete
handleCheckoutComplete(prev, c) ==
    [k \in 1..Len(prev) |->
        LET p == prev[k]
            InCart(item) == item.product.id = p.id
            j == FindIndex(c, InCart)
        IN  IF j # 0 THEN [p EXCEPT !.quantity = p.quantity - c[j].quantity]
            ELSE p]

\* the setProducts(...) of InventoryPage.handleStockInSubmit
handleStockInSubmit(prev, productId, quantity, unitCost) ==
    [k \in 1..Len(prev) |->
        LET p == prev[k]
            totalQuantity == p.quantity + quantity
            newWAC == IF totalQuantity > 0
                      THEN Rat((p.quantity * p.wac_cost.n)
                               + (quantity * unitCost * p.wac_cost.d),
                               p.wac_cost.d * totalQuantity)
                      ELSE IntRat(0)
        IN  IF p.id # productId THEN p
            ELSE [p EXCEPT !.quantity = totalQuantity,
                           !.wac_cost = newWAC,
                           !.cost_price = unitCost]]

InitUI ==
    /\ products = UiProducts
    /\ customers = DEMO_CUSTOMERS
    /\ ledgerEntries = DEMO_LEDGER_ENTRIES
    /\ sales = <<>>
    /\ saleItems = <<>>
    /\ stockMovements = <<>>
    /\ cart = <<>>
    /\ now = StartTime
    /\ last = NoCall
    /\ db = NoDb
    /\ calls = <<>>

UiFrame == UNCHANGED <<customers, ledgerEntries, sales, saleItems,
                       stockMovements, last, db,
                                   calls>>

\* a click on a product card of the grid
UiAddToCart ==
    \E k \in 1..Len(filteredProducts(products)) :
        /\ CartQty(cart) < MaxUiCartQty
        /\ cart' = handleAddToCart(cart, filteredProducts(products)[k])
        /\ UNCHANGED <<products, now>>
        /\ UiFrame

\* the + button of a cart line, disabled at the snapshot's stock level
UiQuantityPlus ==
    \E i \in 1..Len(cart) :
        /\ CartQty(cart) < MaxUiCartQty
        /\ ~(cart[i].quantity >= cart[i].product.quantity)
        /\ cart' = updateCartItemQuantity(cart, cart[i].product.id,
                                          cart[i].quantity + 1)
        /\ UNCHANGED <<products, now>>
        /\ UiFrame

\* the - button of a cart line
UiQuantityMinus ==
    \E i \in 1..Len(cart) :
        /\ cart' = updateCartItemQuantity(cart, cart[i].product.id,
                                          cart[i].quantity - 1)
        /\ UNCHANGED <<products, now>>
        /\ UiFrame

\* checkout completed; the checkout button is disabled on an empty cart
HandleCheckoutComplete ==
    /\ cart # <<>>
    /\ products' = handleCheckoutComplete(products, cart)
    /\ cart' = <<>>
    /\ UNCHANGED now
    /\ UiFrame

\* the stock-in form submitted; updated_at reads the clock
HandleStockInSubmit ==
    \E k \in 1..Len(products), a \in UiReceiptArgs :
        /\ now < StartTime + MaxUiStockIns
        /\ products' = handleStockInSubmit(products, products[k].id, a[1], a[2])
        /\ now' = now + 1
        /\ UNCHANGED cart
        /\ UiFrame

NextUI ==
    \/ UiAddToCart
    \/ UiQuantityPlus
    \/ UiQuantityMinus
    \/ HandleCheckoutComplete
    \/ HandleStockInSubmit

SpecUI == InitUI /\ [][NextUI]_vars

\* C2: after any sequence of receipts and sales every product's quantity
\* is >= 0.
C2_QuantityNonNegative ==
    \A k \in 1..Len(products) : products[k].quantity >= 0

\* a <= b for fractions with positive denominators
RatLeq(a, b) == a.n * b.d <= b.n * a.d

\* C25: a receipt of a positive quantity at a unit cost >= 0 leaves the
\* product's WAC between its WAC before the receipt and the unit cost.
C25_WacBetweenOldAndCost ==
    [][\A k \in 1..Len(products) :
          products'[k].quantity > products[k].quantity =>
              LET w == products[k].wac_cost
                  c == IntRat(products'[k].cost_price)
                  lo == IF RatLeq(w, c) THEN w ELSE c
                  hi == IF RatLeq(w, c) THEN c ELSE w
              IN  /\ RatLeq(lo, products'[k].wac_cost)
                  /\ RatLeq(products'[k].wac_cost, hi)]_vars

\* C30: the low-stock alerts are exactly the active products with
\* quantity <= min_stock_level, each once, out_of_stock at quantity 0,
\* critical when 0 < quantity <= min_stock_level / 2, low_stock otherwise,
\* in ascending order of quantity.
C30_LowStockAlerts ==
    LET alerts == getLowStockAlerts(products)
        low == {k \in 1..Len(products) :
                   /\ products[k].is_active
                   /\ products[k].quantity <= products[k].min_stock_level}
    IN  /\ Len(alerts) = Cardinality(low)
        /\ {alerts[i].productId : i \in 1..Len(alerts)} =
              {products[k].id : k \in low}
        /\ \A i \in 1..Len(alerts) :
              \E k \in low :
                  /\ products[k].id = alerts[i].productId
                  /\ alerts[i].currentStock = products[k].quantity
                  /\ alerts[i].status =
                        (IF products[k].quantity = 0 THEN "out_of_stock"
                         ELSE IF /\ 0 < products[k].quantity
                                 /\ 2 * products[k].quantity
                                       <= products[k].min_stock_level
                              THEN "critical"
                              ELSE "low_stock")
        /\ \A i, j \in 1..Len(alerts) :
              i < j => alerts[i].currentStock <= alerts[j].currentStock

(***************************************************************************)
(* SpecTx: the product repository over transaction()                       *)
(***************************************************************************)
MaxUnits == 2

\* the statement of a unit that the store refuses (a constraint, the disk)
FailPoints == {"none", "UPDATE", "INSERT", "COMMIT"}

\* <<product_id, quantity, unit_cost>> and <<product_id, quantity>>
StockInInputs == {<<1, 10, 10000>>, <<2, 1, 4000>>, <<9, 1, 4000>>}
StockOutInputs == {<<2, 1>>, <<2, 3>>, <<9, 1>>}

\* a statement handed to the database and whether it ran
Stmt(sql, ok) == [sql |-> sql, ok |-> ok]

\* what the async callback of stockIn has done to the database when it
\* returns its promise: the statements it ran, the rows as they stand, and
\* whether the promise is rejected
stockInCallback(prods, moves, input, fail, t) ==
    IF ~HasId(prods, input.product_id)
    THEN [rejected |-> TRUE, error |-> "ProductNotFound", statements |-> <<>>,
          products |-> prods, stockMovements |-> moves]
    ELSE
    LET product == ById(prods, input.product_id)
        newWAC == calculateWAC(product.quantity, product.wac_cost,
                               input.quantity, input.unit_cost)
        newQuantity == product.quantity + input.quantity
        updated == [k \in 1..Len(prods) |->
                      IF prods[k].id # input.product_id THEN prods[k]
                      ELSE [prods[k] EXCEPT !.quantity = newQuantity,
                                            !.wac_cost = newWAC,
                                            !.cost_price = input.unit_cost]]
        movement == [id |-> Len(moves) + 1, product_id |-> input.product_id,
                     type |-> "purchase", quantity |-> input.quantity,
                     unit_cost |-> IntRat(input.unit_cost),
                     reference_type |-> "", created_at |-> t]
    IN  IF fail = "UPDATE"
        THEN [rejected |-> TRUE, error |-> "StoreError",
              statements |-> <<Stmt("UPDATE products", FALSE)>>,
              products |-> prods, stockMovements |-> moves]
        ELSE IF fail = "INSERT"
        THEN [rejected |-> TRUE, error |-> "StoreError",
              statements |-> <<Stmt("UPDATE products", TRUE),
                               Stmt("INSERT stock_movements", FALSE)>>,
              products |-> updated, stockMovements |-> moves]
        ELSE [rejected |-> FALSE, error |-> "",
              statements |-> <<Stmt("UPDATE products", TRUE),
                               Stmt("INSERT stock_movements", TRUE)>>,
              products |-> updated, stockMovements |-> Append(moves, movement)]

\* the same for the async callback of stockOut
stockOutCallback(prods, moves, input, fail, t) ==
    IF ~HasId(prods, input.product_id)
    THEN [rejected |-> TRUE, error |-> "ProductNotFound", statements |-> <<>>,
          products |-> prods, stockMovements |-> moves]
    ELSE
    LET product == ById(prods, input.product_id)
        newQuantity == product.quantity - input.quantity
        updated == [k \in 1..Len(prods) |->
                      IF prods[k].id # input.product_id THEN prods[k]
                      ELSE [prods[k] EXCEPT !.quantity = newQuantity]]
        movement == [id |-> Len(moves) + 1, product_id |-> input.product_id,
                     type |-> "sale", quantity |-> -input.quantity,
                     unit_cost |-> product.wac_cost,
                     reference_type |-> "", created_at |-> t]
    IN  IF product.quantity < input.quantity
        THEN [rejected |-> TRUE, error |-> "InsufficientStock",
              statements |-> <<>>,
              products |-> prods, stockMovements |-> moves]
        ELSE IF fail = "UPDATE"
        THEN [rejected |-> TRUE, error |-> "StoreError",
              statements |-> <<Stmt("UPDATE products", FALSE)>>,
              products |-> prods, stockMovements |-> moves]
        ELSE IF fail = "INSERT"
        THEN [rejected |-> TRUE, error |-> "StoreError",
              statements |-> <<Stmt("UPDATE products", TRUE),
                               Stmt("INSERT stock_movements", FALSE)>>,
              products |-> updated, stockMovements |-> moves]
        ELSE [rejected |-> FALSE, error |-> "",
              statements |-> <<Stmt("UPDATE products", TRUE),
                               Stmt("INSERT stock_movements", TRUE)>>,
              products |-> updated, stockMovements |-> Append(moves, movement)]

\* transaction(callback): BEGIN, callback(), COMMIT, return result; the
\* catch (ROLLBACK) sees what exec throws, and callback() of an async
\* function throws nothing: it returns a promise, rejected or not
transaction(prods, moves, callback, fail) ==
    IF fail = "COMMIT"
    THEN [rejected |-> TRUE, error |-> "StoreError",
          statements |-> <<Stmt("BEGIN TRANSACTION", TRUE)>>
                         \o callback.statements
                         \o <<Stmt("COMMIT", FALSE), Stmt("ROLLBACK", TRUE)>>,
          products |-> prods, stockMovements |-> moves]
    ELSE [rejected |-> callback.rejected, error |-> callback.error,
          statements |-> <<Stmt("BEGIN TRANSACTION", TRUE)>>
                         \o callback.statements
                         \o <<Stmt("COMMIT", TRUE)>>,
          products |-> callback.products,
          stockMovements |-> callback.stockMovements]

stockIn(prods, moves, input, fail, t) ==
    transaction(prods, moves, stockInCallback(prods, moves, input, fail, t), fail)

stockOut(prods, moves, input, fail, t) ==
    transaction(prods, moves, stockOutCallback(prods, moves, input, fail, t), fail)

InitTx ==
    /\ products = UiProducts
    /\ customers = <<>>
    /\ ledgerEntries = <<>>
    /\ sales = <<>>
    /\ saleItems = <<>>
    /\ stockMovements = <<>>
    /\ cart = <<>>
    /\ now = StartTime
    /\ last = NoCall
    /\ db = NoDb
    /\ calls = <<>>

TxFrame == UNCHANGED <<customers, ledgerEntries, sales, saleItems, cart,
                       calls>>

StockIn ==
    \E a \in StockInInputs, fail \in FailPoints :
        LET input == [product_id |-> a[1], quantity |-> a[2], unit_cost |-> a[3]]
            r == stockIn(products, stockMovements, input, fail, now)
        IN  /\ now < StartTime + MaxUnits
            /\ products' = r.products
            /\ stockMovements' = r.stockMovements
            /\ db' = [inTransaction |-> FALSE, statements |-> r.statements]
            /\ last' = [Call("stockIn", ~r.rejected, r.error) EXCEPT
                          !.productId = a[1], !.quantity = a[2],
                          !.unitCost = a[3]]
            /\ now' = now + 1
            /\ TxFrame

StockOut ==
    \E a \in StockOutInputs, fail \in FailPoints :
        LET input == [product_id |-> a[1], quantity |-> a[2]]
            r == stockOut(products, stockMovements, input, fail, now)
        IN  /\ now < StartTime + MaxUnits
            /\ products' = r.products
            /\ stockMovements' = r.stockMovements
            /\ db' = [inTransaction |-> FALSE, statements |-> r.statements]
            /\ last' = [Call("stockOut", ~r.rejected, r.error) EXCEPT
                          !.productId = a[1], !.quantity = a[2]]
            /\ now' = now + 1
            /\ TxFrame

NextTx ==
    \/ StockIn
    \/ StockOut

SpecTx == InitTx /\ [][NextTx]_vars

Issued(sql) == \E i \in 1..Len(db.statements) : db.statements[i].sql = sql

\* a statement of the unit failed after a write of the unit had succeeded
FailedAfterWrite ==
    \E i, j \in 1..Len(db.statements) :
        /\ i < j
        /\ db.statements[i].sql = "UPDATE products"
        /\ db.statements[i].ok
        /\ db.statements[j].sql = "INSERT stock_movements"
        /\ ~db.statements[j].ok

SeedProducts ==
    << Product(1, 50, 85000, 95000, 10),
       Product(2, 30, 220000, 245000, 5) >>

SeedCustomers ==
    << Customer(1, 5000000, 1500000),
       Customer(2, 3000000, 850000),
       Customer(3, 2500000, 0) >>

SeedUsers == {1}

\* ledgers: CHECK (type IN ('credit', 'debit', 'opening'))
LedgerTypes == {"credit", "debit", "opening"}

\* the tables as the connection sees them
Tables ==
    [products |-> products, customers |-> customers, ledgers |-> ledgerEntries,
     sales |-> sales, sale_items |-> saleItems, inTransaction |-> db.inTransaction]

MaxId(rows) == SetMax({rows[i].id : i \in 1..Len(rows)} \cup {0})

\* one statement on the tables d at time t: the tables after it, or failure
sqlStep(d, st, t) ==
    CASE st.sql = "BEGIN TRANSACTION" ->
            IF d.inTransaction THEN [ok |-> FALSE, d |-> d]
            ELSE [ok |-> TRUE, d |-> [d EXCEPT !.inTransaction = TRUE]]
      [] st.sql = "COMMIT" ->
            IF ~d.inTransaction THEN [ok |-> FALSE, d |-> d]
            ELSE [ok |-> TRUE, d |-> [d EXCEPT !.inTransaction = FALSE]]
      [] st.sql = "INSERT sales" ->
            IF \/ \E i \in 1..Len(d.sales) :
                     d.sales[i].invoice_number = st.invoice_number
               \/ ~HasId(d.customers, st.customer_id)
               \/ st.user_id \notin SeedUsers
            THEN [ok |-> FALSE, d |-> d]
            ELSE [ok |-> TRUE,
                  d |-> [d EXCEPT !.sales = Append(@,
                          [id |-> MaxId(d.sales) + 1,
                           invoice_number |-> st.invoice_number,
                           customer_id |-> st.customer_id,
                           subtotal |-> st.subtotal,
                           discount_amount |-> st.discount_amount,
                           total |-> st.total,
                           payment_method |-> "credit",
                           payment_received |-> 0,
                           change_amount |-> 0,
                           status |-> "completed",
                           created_at |-> t])]]
      [] st.sql = "INSERT sale_items" ->
            IF ~HasId(d.products, st.product_id) \/ d.sales = <<>>
            THEN [ok |-> FALSE, d |-> d]
            ELSE [ok |-> TRUE,
                  d |-> [d EXCEPT !.sale_items = Append(@,
                          [id |-> MaxId(d.sale_items) + 1,
                           sale_id |-> MaxId(d.sales),
                           product_id |-> st.product_id,
                           quantity |-> st.quantity,
                           unit_price |-> st.unit_price,
                           cost_price |-> st.cost_price,
                           discount_amount |-> st.discount_amount,
                           total |-> st.total,
                           created_at |-> t])]]
      [] st.sql = "UPDATE products SET quantity = quantity - n" ->
            [ok |-> TRUE,
             d |-> [d EXCEPT !.products =
                     [k \in 1..Len(@) |->
                        IF @[k].id # st.product_id THEN @[k]
                        ELSE [@[k] EXCEPT !.quantity = @ - st.quantity]]]]
      [] st.sql = "UPDATE products SET quantity = n" ->
            [ok |-> TRUE,
             d |-> [d EXCEPT !.products =
                     [k \in 1..Len(@) |->
                        IF @[k].id # st.product_id THEN @[k]
                        ELSE [@[k] EXCEPT !.quantity = st.quantity]]]]
      [] st.sql = "INSERT ledgers" ->
            IF ~HasId(d.customers, st.customer_id)
            THEN [ok |-> TRUE, d |-> d]
            ELSE IF st.type \notin LedgerTypes \/ st.user_id \notin SeedUsers
            THEN [ok |-> FALSE, d |-> d]
            ELSE [ok |-> TRUE,
                  d |-> [d EXCEPT !.ledgers = Append(@,
                          Entry(MaxId(d.ledgers) + 1, st.customer_id, st.type,
                                st.amount,
                                ById(d.customers, st.customer_id).credit_balance
                                    + st.amount,
                                MaxId(d.sales), "sale", t))]]
      [] st.sql = "UPDATE customers" ->
            [ok |-> TRUE,
             d |-> [d EXCEPT !.customers =
                     [k \in 1..Len(@) |->
                        IF @[k].id # st.customer_id THEN @[k]
                        ELSE [@[k] EXCEPT !.credit_balance = @ + st.amount]]]]

\* sqlite3.exec: the statements in order, stopping at the first that fails
RECURSIVE exec(_, _, _, _)
exec(d, stmts, log, t) ==
    IF stmts = <<>> THEN [d |-> d, threw |-> FALSE, statements |-> log]
    ELSE LET r == sqlStep(d, Head(stmts), t)
         IN  IF ~r.ok
             THEN [d |-> d, threw |-> TRUE,
                   statements |-> Append(log, Stmt(Head(stmts).sql, FALSE))]
             ELSE exec(r.d, Tail(stmts),
                       Append(log, Stmt(Head(stmts).sql, TRUE)), t)

\* executeSQL(sql): the script handed to sqlite3.exec as it is
executeSQL(d, stmts, t) == exec(d, stmts, <<>>, t)

\* SQL_QUERIES.khataSale: the script for one credit sale
khataSale(sale, items, customerId, netAmount, invoiceNumber, userId) ==
    LET itemInserts ==
            [n \in 1..(2 * Len(items)) |->
                LET item == items[(n + 1) \div 2]
                IN  IF n % 2 = 1
                    THEN [sql |-> "INSERT sale_items",
                          product_id |-> item.product_id,
                          quantity |-> item.quantity,
                          unit_price |-> item.unit_price,
                          cost_price |-> item.cost_price,
                          discount_amount |-> item.discount_amount,
                          total |-> item.total]
                    ELSE [sql |-> "UPDATE products SET quantity = quantity - n",
                          product_id |-> item.product_id,
                          quantity |-> item.quantity]]
    IN  << [sql |-> "BEGIN TRANSACTION"],
           [sql |-> "INSERT sales", invoice_number |-> sale.invoice_number,
            customer_id |-> customerId, user_id |-> userId,
            subtotal |-> sale.subtotal,
            discount_amount |-> sale.discount_amount, total |-> sale.total] >>
        \o itemInserts
        \o << [sql |-> "INSERT ledgers", customer_id |-> customerId,
               type |-> "DEBIT", amount |-> netAmount, user_id |-> userId],
              [sql |-> "UPDATE customers", customer_id |-> customerId,
               amount |-> netAmount],
              [sql |-> "COMMIT"] >>

\* updateProductQuantity(productId, newQuantity): the first ? takes the
\* quantity, the second the id
updateProductQuantity(productId, newQuantity) ==
    << [sql |-> "UPDATE products SET quantity = n",
        quantity |-> newQuantity, product_id |-> productId] >>

InitSql ==
    /\ products = SeedProducts
    /\ customers = SeedCustomers
    /\ ledgerEntries = <<>>
    /\ sales = <<>>
    /\ saleItems = <<>>
    /\ stockMovements = <<>>
    /\ cart = <<>>
    /\ now = StartTime
    /\ last = NoCall
    /\ db = NoDb
    /\ calls = <<>>

\* <<customerId, product id, quantity>>; customer 9 does not exist
SqlSaleArgs == {<<3, 1, 1>>, <<1, 2, 31>>, <<9, 1, 1>>}
SqlQuantityArgs == {<<1, 0>>, <<1, 5>>, <<2, 5>>}

StoreTables(r) ==
    /\ products' = r.d.products
    /\ customers' = r.d.customers
    /\ ledgerEntries' = r.d.ledgers
    /\ sales' = r.d.sales
    /\ saleItems' = r.d.sale_items
    /\ db' = [inTransaction |-> r.d.inTransaction, statements |-> r.statements]

\* a credit sale persisted with the khataSale script
SqlKhataSale ==
    \E a \in SqlSaleArgs :
        LET c == a[1]
            lines == addToCart(<<>>, ById(products, a[2]), a[3])
            totals == calculateSaleTotals(lines, 0)
            sale == [invoice_number |-> now, subtotal |-> totals.subtotal,
                     discount_amount |-> 0, total |-> totals.netAmount]
            items == SaleItemsOf(lines, now, now)
            r == executeSQL(Tables,
                            khataSale(sale, items, c, totals.netAmount, now, 1),
                            now)
        IN  /\ StoreTables(r)
            /\ last' = [Call("khataSale", ~r.threw,
                             IF r.threw THEN "SQLiteError" ELSE "") EXCEPT
                          !.customerId = c, !.amount = totals.netAmount,
                          !.items = lines]
            /\ UNCHANGED <<stockMovements, cart, now, calls>>

UpdateProductQuantity ==
    \E a \in SqlQuantityArgs :
        LET r == executeSQL(Tables, updateProductQuantity(a[1], a[2]), now)
        IN  /\ StoreTables(r)
            /\ last' = [Call("updateProductQuantity", ~r.threw, "") EXCEPT
                          !.productId = a[1], !.quantity = a[2]]
            /\ UNCHANGED <<stockMovements, cart, now, calls>>

NextSql ==
    \/ SqlKhataSale
    \/ UpdateProductQuantity

SpecSql == InitSql /\ [][NextSql]_vars

\* every effect of the credit sale of the last unit is in the tables
AllSaleEffects ==
    /\ Len(sales) = Len(last.pre.sales) + 1
    /\ Len(saleItems) = Len(last.pre.saleItems) + Len(last.items)
    /\ \A i \in 1..Len(last.items) :
          ById(products, last.items[i].product.id).quantity =
              ById(last.pre.products, last.items[i].product.id).quantity
                  - last.items[i].quantity
    /\ Len(ledgerEntries) = Len(last.pre.ledgerEntries) + 1
    /\ LastEntry.customer_id = last.customerId
    /\ ById(customers, last.customerId).credit_balance =
          ById(last.pre.customers, last.customerId).credit_balance + last.amount

\* C5: after a credit-sale unit has ended, completed or failed, either all
\* of its effects are present or none is; stock is never decremented for a
\* credit sale whose ledger entry was not written.
C5_KhataSaleUnitAtomic ==
    (last.op = "khataSale") => (StoreUnchanged \/ AllSaleEffects)

\* the balance of customer c's most recent ledger entry, 0 without entries
LatestBalance(c) ==
    LET mine == SelectSeq(ledgerEntries, LAMBDA e : e.customer_id = c)
    IN  IF mine = <<>> THEN 0 ELSE mine[Len(mine)].balance

\* C1: in every reachable state each customer's credit_balance equals the
\* balance of that customer's most recent ledger entry, or 0 without one.
C1_BalanceMatchesLedger ==
    \A k \in 1..Len(customers) :
        customers[k].credit_balance = LatestBalance(customers[k].id)

\* the signed quantities of the stock movements of product p
RECURSIVE MovementSum(_, _)
MovementSum(moves, p) ==
    IF moves = <<>> THEN 0
    ELSE MovementSum(Tail(moves), p)
         + (IF Head(moves).product_id = p THEN Head(moves).quantity ELSE 0)

\* the movements the last call appended
NewMovements ==
    SubSeq(stockMovements, Len(last.pre.stockMovements) + 1,
           Len(stockMovements))

\* C13: every change of a product's quantity is recorded by a stock
\* movement: each product's quantity is its initial quantity plus the sum of
\* the signed quantities of its movements, and a successful sale appends one
\* movement per line, of type sale, with the negated line quantity.
C13_QuantityIsSumOfMovements ==
    /\ \A k \in 1..Len(products) :
          products[k].quantity =
              InitProducts[k].quantity
                  + MovementSum(stockMovements, products[k].id)
    /\ (IsSale /\ last.ok) =>
          /\ Len(NewMovements) = Len(last.items)
          /\ \A i \in 1..Len(NewMovements) :
                /\ NewMovements[i].type = "sale"
                /\ NewMovements[i].product_id = last.items[i].product.id
                /\ NewMovements[i].quantity = -last.items[i].quantity

\* the completed sales stamped in [startDate, endDate)
SalesInHalfOpenRange(r) ==
    {i \in 1..Len(sales) :
        /\ sales[i].status = "completed"
        /\ sales[i].created_at >= r.startDate
        /\ sales[i].created_at < r.endDate}

\* C26: with a date range, calculateNetProfit counts exactly the completed
\* sales with startDate <= created_at < endDate: a sale stamped at endDate
\* is left out, one stamped at startDate is counted.
C26_RangeExcludesEnd ==
    \A r \in ReportRanges \ {NoRange} :
        calculateNetProfit(sales, saleItems, r).transactionCount =
            Cardinality(SalesInHalfOpenRange(r))

\* C29: the statement of a customer holds exactly that customer's entries,
\* latest creation time first, entries of one creation time by id descending.
C29_StatementOrder ==
    \A c \in {customers[k].id : k \in 1..Len(customers)} :
        LET st == getCustomerLedgerStatement(c, ledgerEntries)
            own == {i \in 1..Len(ledgerEntries) :
                       ledgerEntries[i].customer_id = c}
        IN  /\ Len(st) = Cardinality(own)
            /\ {st[k] : k \in 1..Len(st)} = {ledgerEntries[i] : i \in own}
            /\ \A k, l \in 1..Len(st) :
                  k < l =>
                      \/ st[k].created_at > st[l].created_at
                      \/ /\ st[k].created_at = st[l].created_at
                         /\ st[k].id > st[l].id

(***************************************************************************)
(* SpecLedger: LedgerPage over LedgerContext with the database ready.      *)
(* customers and ledgerEntries are the provider's React state; the tables  *)
(* of the store are db.customers and db.ledgers.  A call of addLedgerEntry *)
(* runs from await to await: INSERT, UPDATE, refreshCustomers and the      *)
(* in-memory update; other calls and reads run between its steps.          *)
(***************************************************************************)
MaxCalls == 2

LedgerCustomers == {1, 2, 4}
LedgerAmounts == {100000, 250000}

\* entryData.type === 'credit' ? entryData.amount : -entryData.amount
balanceChange(type, amount) == IF type = "credit" THEN amount ELSE -amount

\* getCustomerBalance: customer?.credit_balance || 0
getCustomerBalance(custs, customerId) ==
    IF HasId(custs, customerId) THEN ById(custs, customerId).credit_balance
    ELSE 0

\* handlePaymentSubmit: the entry handed to addLedgerEntry
handlePaymentSubmit(custs, customerId, isPayment, amount) ==
    LET currentBalance == getCustomerBalance(custs, customerId)
    IN  [customer_id |-> customerId,
         type |-> IF isPayment THEN "debit" ELSE "credit",
         amount |-> amount,
         balance |-> IF isPayment THEN currentBalance - amount
                     ELSE currentBalance + amount,
         user_id |-> 1]

\* addLedgerEntry, first store call: INSERT INTO ledgers
insertLedger(d, entryData, t) ==
    IF \/ ~HasId(d.customers, entryData.customer_id)
       \/ entryData.user_id \notin SeedUsers
       \/ entryData.type \notin LedgerTypes
    THEN [ok |-> FALSE, d |-> d]
    ELSE [ok |-> TRUE,
          d |-> [d EXCEPT !.ledgers = Append(@,
                  Entry(MaxId(d.ledgers) + 1, entryData.customer_id,
                        entryData.type, entryData.amount, entryData.balance,
                        NoRef, "", t))]]

\* addLedgerEntry, second store call: credit_balance = credit_balance + ?
updateCustomerBalance(d, entryData) ==
    [d EXCEPT !.customers =
        [k \in 1..Len(@) |->
            IF @[k].id # entryData.customer_id THEN @[k]
            ELSE [@[k] EXCEPT !.credit_balance =
                      @ + balanceChange(entryData.type, entryData.amount)]]]

\* getAllCustomers: the active customers of the store
getAllCustomers(d) == SelectSeq(d.customers, LAMBDA c : c.is_active)

\* refreshCustomers: the state takes the store's customers when there are any
refreshCustomers(custs, d) ==
    LET dbCustomers == getAllCustomers(d)
    IN  IF Len(dbCustomers) > 0 THEN dbCustomers ELSE custs

\* addLedgerEntry, in-memory part: the id and the customer lookup come from
\* the state the callback closed over, the updates apply to the state now
addLedgerEntryInMemory(entries, custs, call, t) ==
    LET newEntry == Entry(MaxId(call.ledgerEntries) + 1, call.customer_id,
                          call.type, call.amount, call.balance, NoRef, "", t)
    IN  [ledgerEntries |-> Append(entries, newEntry),
         customers |->
            IF ~HasId(call.customers, call.customer_id) THEN custs
            ELSE [k \in 1..Len(custs) |->
                    IF custs[k].id # call.customer_id THEN custs[k]
                    ELSE [custs[k] EXCEPT !.credit_balance =
                             @ + balanceChange(call.type, call.amount)]]]

\* what a read returned, and the ledger rows stored when it ran
Read(op, seen, ledgers) == [op |-> op, seen |-> seen, ledgers |-> ledgers]

NoRead == Read("none", <<>>, <<>>)

InitLedger ==
    /\ products = InitProducts
    /\ customers = DEMO_CUSTOMERS
    /\ ledgerEntries = DEMO_LEDGER_ENTRIES
    /\ sales = <<>>
    /\ saleItems = <<>>
    /\ stockMovements = <<>>
    /\ cart = <<>>
    /\ now = StartTime
    /\ last = NoRead
    /\ db = [inTransaction |-> FALSE, statements |-> <<>>,
             customers |-> SeedCustomers, ledgers |-> <<>>]
    /\ calls = <<>>

LedgerFrame == UNCHANGED <<products, sales, saleItems, stockMovements, cart,
                           now>>

InFlight(i) == calls[i].pc # "done"

\* LedgerPage.handlePaymentSubmit: addLedgerEntry starts and is not awaited
HandlePaymentSubmit ==
    /\ Len(calls) < MaxCalls
    /\ \E c \in LedgerCustomers, isPayment \in BOOLEAN, a \in LedgerAmounts :
        /\ HasId(customers, c)
        /\ LET entryData == handlePaymentSubmit(customers, c, isPayment, a)
           IN  calls' = Append(calls,
                   [customer_id |-> entryData.customer_id,
                    type |-> entryData.type,
                    amount |-> entryData.amount,
                    balance |-> entryData.balance,
                    user_id |-> entryData.user_id,
                    pc |-> "insert",
                    ledgerEntries |-> ledgerEntries,
                    customers |-> customers,
                    overlapped |-> \E i \in 1..Len(calls) : InFlight(i),
                    stored |-> FALSE,
                    outcome |-> "pending"])
    /\ UNCHANGED <<customers, ledgerEntries, last, db>>
    /\ LedgerFrame

\* addLedgerEntry up to the INSERT; a failure goes to the catch and on to the
\* in-memory part
StepInsert ==
    \E i \in 1..Len(calls) :
        /\ calls[i].pc = "insert"
        /\ LET r == insertLedger(db, calls[i], now)
           IN  IF r.ok
               THEN /\ db' = r.d
                    /\ calls' = [calls EXCEPT ![i].pc = "update",
                                              ![i].stored = TRUE]
                    /\ UNCHANGED <<customers, ledgerEntries>>
               ELSE LET m == addLedgerEntryInMemory(ledgerEntries, customers,
                                                    calls[i], now)
                    IN  /\ ledgerEntries' = m.ledgerEntries
                        /\ customers' = m.customers
                        /\ calls' = [calls EXCEPT ![i].pc = "done",
                                                  ![i].outcome = "resolved"]
                        /\ UNCHANGED db
        /\ UNCHANGED last
        /\ LedgerFrame

\* addLedgerEntry, the UPDATE of the customer's balance
StepUpdate ==
    \E i \in 1..Len(calls) :
        /\ calls[i].pc = "update"
        /\ db' = updateCustomerBalance(db, calls[i])
        /\ calls' = [calls EXCEPT ![i].pc = "refresh"]
        /\ UNCHANGED <<customers, ledgerEntries, last>>
        /\ LedgerFrame

\* addLedgerEntry from refreshCustomers to its return
StepFinish ==
    \E i \in 1..Len(calls) :
        /\ calls[i].pc = "refresh"
        /\ LET seen == getAllCustomers(db)
               m == addLedgerEntryInMemory(ledgerEntries,
                        refreshCustomers(customers, db), calls[i], now)
           IN  /\ ledgerEntries' = m.ledgerEntries
               /\ customers' = m.customers
               /\ last' = Read("refreshCustomers", seen, db.ledgers)
        /\ calls' = [calls EXCEPT ![i].pc = "done",
                                  ![i].outcome = "resolved"]
        /\ UNCHANGED db
        /\ LedgerFrame

\* refreshCustomers called on its own: the load on mount, addCustomer,
\* updateCustomer
RefreshCustomers ==
    /\ customers' = refreshCustomers(customers, db)
    /\ last' = Read("refreshCustomers", getAllCustomers(db), db.ledgers)
    /\ UNCHANGED <<ledgerEntries, db, calls>>
    /\ LedgerFrame

NextLedger ==
    \/ HandlePaymentSubmit
    \/ StepInsert
    \/ StepUpdate
    \/ StepFinish
    \/ RefreshCustomers

SpecLedger == InitLedger /\ [][NextLedger]_vars

\* two recordings for one customer, the second started while the first was
\* in flight, both stored and both returned
TwoOverlappedStored ==
    /\ Len(calls) = 2
    /\ \A i \in 1..2 : calls[i].pc = "done" /\ calls[i].stored
    /\ calls[1].customer_id = calls[2].customer_id
    /\ calls[2].overlapped

\* C11: two overlapping recordings for the same customer leave what a serial
\* execution leaves: the running balance of the entry stored second is the
\* running balance of the entry stored first plus the second entry's signed
\* amount, and the customer's stored balance is the running balance of the
\* last entry.
C11_OverlappedRecordingsSerial ==
    TwoOverlappedStored =>
        LET e1 == db.ledgers[1]
            e2 == db.ledgers[2]
        IN  /\ e2.balance = e1.balance + balanceChange(e2.type, e2.amount)
            /\ ById(db.customers, e2.customer_id).credit_balance = e2.balance

\* the signed amounts of the stored entries of customer c
RECURSIVE StoredChange(_, _)
StoredChange(rows, c) ==
    IF rows = <<>> THEN 0
    ELSE StoredChange(Tail(rows), c)
         + (IF Head(rows).customer_id = c
            THEN balanceChange(Head(rows).type, Head(rows).amount) ELSE 0)

\* C12: a read of the customers that runs while a recording is in progress
\* never sees a balance that lacks a stored entry's amount, nor a balance
\* that holds the amount of an entry not stored: for every customer it
\* returns, the balance is the seeded one plus the stored entries' amounts.
C12_ReadsSeeWholeRecordings ==
    (last.op = "refreshCustomers") =>
        \A k \in 1..Len(last.seen) :
            last.seen[k].credit_balance =
                ById(SeedCustomers, last.seen[k].id).credit_balance
                    + StoredChange(last.ledgers, last.seen[k].id)

\* C38: the ids of the ledger entries are pairwise distinct, and an entry
\* appended later has a greater id than every entry before it, also when two
\* addLedgerEntry calls were issued before the ledger state was re-rendered.
C38_LedgerIdsDistinctAndIncreasing ==
    \A i, j \in 1..Len(ledgerEntries) :
        (i < j /\ j > Len(DEMO_LEDGER_ENTRIES)) =>
            ledgerEntries[i].id < ledgerEntries[j].id

\* C22: when the store refuses a statement of addLedgerEntry, the promise
\* the caller holds is rejected, and the step applies no in-memory ledger
\* entry and no in-memory balance change.
C22_StoreFailureReachesCaller ==
    [][\A i \in 1..Len(calls) :
          (calls[i].pc = "insert" /\ calls'[i].pc = "done") =>
              /\ calls'[i].outcome = "rejected"
              /\ customers' = customers
              /\ ledgerEntries' = ledgerEntries]_vars

(***************************************************************************)
(* SpecFn: the sale and payment functions of salesService called directly, *)
(* with any line list, discount and amount a caller can pass.              *)
(***************************************************************************)
MaxFnOps == 2

\* line lists as <<product id, quantity, line discount>>: none, one line,
\* two lines for one product, two products, a discounted line
FnItemLists ==
    { <<>>,
      << <<2, 1, 0>> >>,
      << <<2, 1, 0>>, <<2, 1, 0>> >>,
      << <<1, 1, 0>>, <<2, 2, 0>> >>,
      << <<2, 2, 300>> >> }

FnDiscounts == {-500, 0, 500, 2000000}
FnSaleCustomers == {1, 9}
FnPaymentCustomers == {1, 9}
FnAmounts == {-4000, 0, 4000}
\* <<customerId, amountPaid>> of a cash sale: a walk-in customer paying
\* short, a known customer paying with a large note
FnCashPayers == { <<NoCustomer, 3000>>, <<1, 2000000>> }

\* CartItem: a line holding the product as the caller has it
FnItems(list, prods) ==
    [i \in 1..Len(list) |->
        [product |-> ById(prods, list[i][1]), quantity |-> list[i][2],
         unitPrice |-> ById(prods, list[i][1]).selling_price,
         discount |-> list[i][3]]]

InitFn ==
    /\ \E q1 \in {0, 1}, q2 \in {2, 3} :
          products = << [InitProducts[1] EXCEPT !.quantity = q1],
                        [InitProducts[2] EXCEPT !.quantity = q2] >>
    /\ customers = DEMO_CUSTOMERS
    /\ ledgerEntries = DEMO_LEDGER_ENTRIES
    /\ sales = <<>>
    /\ saleItems = <<>>
    /\ stockMovements = <<>>
    /\ cart = <<>>
    /\ now = StartTime
    /\ last = NoCall
    /\ db = NoDb
    /\ calls = <<>>

FnOps == Len(sales) + (Len(ledgerEntries) - Len(DEMO_LEDGER_ENTRIES))

FnFrame == UNCHANGED <<stockMovements, cart, db, calls>>

\* createCashSale called with a line list and a discount; the caller keeps
\* what it returns
FnCreateCashSale ==
    \E list \in FnItemLists, d \in FnDiscounts, payer \in FnCashPayers :
        LET c == payer[1]
            paid == payer[2]
            items == FnItems(list, products)
            params == [items |-> items, discount |-> d,
                       amountPaid |-> paid, customerId |-> c]
            r == createCashSale(params, products, now)
        IN  /\ FnOps < MaxFnOps
            /\ sales' = Append(sales, r.sale)
            /\ saleItems' = saleItems \o r.saleItems
            /\ products' = r.updatedProducts
            /\ customers' = IF "updatedCustomers" \in DOMAIN r
                            THEN r.updatedCustomers ELSE customers
            /\ ledgerEntries' = IF "newLedgerEntry" \in DOMAIN r
                                THEN Append(ledgerEntries, r.newLedgerEntry)
                                ELSE ledgerEntries
            /\ last' = [Call("createCashSale", TRUE, "") EXCEPT
                          !.customerId = c, !.discount = d, !.amount = paid,
                          !.items = items]
            /\ now' = now + 1
            /\ FnFrame

\* createKhataSale called with a line list, a discount and a customer id
FnCreateKhataSale ==
    \E list \in FnItemLists, d \in FnDiscounts, c \in FnSaleCustomers :
        LET items == FnItems(list, products)
            params == [items |-> items, discount |-> d, amountPaid |-> 0,
                       customerId |-> c]
            r == createKhataSale(params, products, customers, ledgerEntries,
                                 now)
        IN  /\ FnOps < MaxFnOps
            /\ IF r.threw
               THEN /\ last' = [Call("createKhataSale", FALSE, r.error) EXCEPT
                                  !.customerId = c, !.discount = d,
                                  !.items = items]
                    /\ UNCHANGED <<products, customers, ledgerEntries, sales,
                                   saleItems, now>>
               ELSE /\ sales' = Append(sales, r.sale)
                    /\ saleItems' = saleItems \o r.saleItems
                    /\ products' = r.updatedProducts
                    /\ customers' = r.updatedCustomers
                    /\ ledgerEntries' = Append(ledgerEntries, r.newLedgerEntry)
                    /\ last' = [Call("createKhataSale", TRUE, "") EXCEPT
                                  !.customerId = c, !.discount = d,
                                  !.items = items]
                    /\ now' = now + 1
            /\ FnFrame

\* recordKhataPayment called with a customer id and an amount
FnRecordKhataPayment ==
    \E c \in FnPaymentCustomers, a \in FnAmounts :
        LET r == recordKhataPayment(c, a, customers, ledgerEntries, now)
        IN  /\ FnOps < MaxFnOps
            /\ IF r.threw
               THEN /\ last' = [Call("recordKhataPayment", FALSE, r.error)
                                  EXCEPT !.customerId = c, !.amount = a]
                    /\ UNCHANGED <<customers, ledgerEntries, now>>
               ELSE /\ customers' = r.updatedCustomers
                    /\ ledgerEntries' = Append(ledgerEntries, r.newLedgerEntry)
                    /\ last' = [Call("recordKhataPayment", TRUE, "") EXCEPT
                                  !.customerId = c, !.amount = a]
                    /\ now' = now + 1
            /\ UNCHANGED <<products, sales, saleItems>>
            /\ FnFrame

NextFn ==
    \/ FnCreateCashSale
    \/ FnCreateKhataSale
    \/ FnRecordKhataPayment

SpecFn == InitFn /\ [][NextFn]_vars

\* the quantity the lines of a sale ask of product p
SoldQty(items, p) ==
    SumSeq([i \in 1..Len(items) |->
              IF items[i].product.id = p THEN items[i].quantity ELSE 0])

\* the stock covers what the sale asks of every product
StockCovers(items, prods) ==
    \A k \in 1..Len(prods) : SoldQty(items, prods[k].id) <= prods[k].quantity

\* C14: after a successful sale whose lines the stock covers, each product's
\* quantity has gone down by exactly the sum of the quantities of the sale's
\* lines for that product, also with several lines for one product;
\* products not in the sale keep their quantity.
C14_SaleDecrementsByLineSum ==
    (IsSale /\ last.ok /\ StockCovers(last.items, last.pre.products)) =>
        \A k \in 1..Len(products) :
            products[k].quantity =
                last.pre.products[k].quantity
                    - SoldQty(last.items, products[k].id)

\* C18: recordKhataPayment with an amount that is not positive, or for a
\* customer id that does not exist, fails, appends no ledger entry and
\* changes no customer balance.
C18_InvalidPaymentRejected ==
    (/\ last.op = "recordKhataPayment"
     /\ \/ last.amount <= 0
        \/ ~HasId(last.pre.customers, last.customerId)) =>
        /\ ~last.ok
        /\ ledgerEntries = last.pre.ledgerEntries
        /\ customers = last.pre.customers

\* the discount of the last sale is negative or more than its subtotal
InvalidDiscount ==
    \/ last.discount < 0
    \/ last.discount > calculateSaleTotals(last.items, last.discount).subtotal

\* C19: createCashSale and createKhataSale fail and change no sale, product,
\* customer or ledger entry when the line list is empty or when the
\* sale-level discount is negative or exceeds the subtotal.
C19_EmptyOrMisdiscountedSaleRejected ==
    (IsSale /\ (last.items = <<>> \/ InvalidDiscount)) =>
        (~last.ok /\ StoreUnchanged)

\* C20: every ledger entry appended by createKhataSale or recordKhataPayment
\* has a positive amount.
C20_AppendedAmountsPositive ==
    \A i \in (Len(DEMO_LEDGER_ENTRIES) + 1)..Len(ledgerEntries) :
        ledgerEntries[i].amount > 0

\* the lines stored for the sale the last call created
LastSaleItems ==
    SubSeq(saleItems, Len(saleItems) - Len(last.items) + 1, Len(saleItems))

SaleCreated ==
    /\ last.op \in {"createCashSale", "createKhataSale"}
    /\ last.ok

\* C23: in every sale createCashSale or createKhataSale creates, each line's
\* total is quantity * unitPrice - line discount, the subtotal is the sum of
\* the line totals, the total is the subtotal less the sale discount, and a
\* cash sale's change is max(0, amountPaid - total), never negative.
C23_SaleTotals ==
    SaleCreated =>
        /\ Len(LastSaleItems) = Len(last.items)
        /\ \A i \in 1..Len(last.items) :
              LastSaleItems[i].total =
                  last.items[i].quantity * last.items[i].unitPrice
                      - last.items[i].discount
        /\ LastSale.subtotal =
              SumSeq([i \in 1..Len(LastSaleItems) |-> LastSaleItems[i].total])
        /\ LastSale.total = LastSale.subtotal - last.discount
        /\ last.op = "createCashSale" =>
              /\ LastSale.change_amount >= 0
              /\ LastSale.change_amount =
                    (IF last.amount > LastSale.total
                     THEN last.amount - LastSale.total ELSE 0)

\* a cash sale with a discounted line, paid short: no change is due
C23_Witness ==
    /\ SaleCreated
    /\ last.op = "createCashSale"
    /\ \E i \in 1..Len(last.items) : last.items[i].discount > 0
    /\ last.amount < LastSale.total
    /\ LastSale.change_amount = 0

\* C24: createCashSale, with or without a customer reference, appends no
\* ledger entry and leaves every customer's credit_balance unchanged.
C24_CashSaleLeavesLedger ==
    (last.op = "createCashSale" /\ last.ok) =>
        /\ ledgerEntries = last.pre.ledgerEntries
        /\ \A k \in 1..Len(last.pre.customers) :
              getCustomerBalance(customers, last.pre.customers[k].id) =
                  last.pre.customers[k].credit_balance
        /\ Len(customers) = Len(last.pre.customers)

\* a cash sale that names a customer who owes money
C24_Witness ==
    /\ last.op = "createCashSale"
    /\ last.ok
    /\ last.customerId = 1
    /\ Len(last.items) > 0
    /\ getCustomerBalance(customers, 1) > 0
    /\ Len(sales) = Len(last.pre.sales) + 1

\* the sales a report over the range includes
Included(r) ==
    {i \in 1..Len(sales) :
        /\ sales[i].status = "completed"
        /\ \/ r.all
           \/ /\ sales[i].created_at >= r.startDate
              /\ sales[i].created_at <= r.endDate}

\* C27: over the sales it includes, calculateNetProfit returns
\* netProfit = sum of quantity * (unit_price - cost_price) over their lines
\* - the sum of the line discounts - each included sale's discount once.
C27_NetProfitFormula ==
    \A r \in ReportRanges :
        LET ids == {sales[i].id : i \in Included(r)}
            margins == [j \in 1..Len(saleItems) |->
                           IF saleItems[j].sale_id \in ids
                           THEN saleItems[j].quantity
                                  * (saleItems[j].unit_price
                                       - saleItems[j].cost_price)
                                - saleItems[j].discount_amount
                           ELSE 0]
            discounts == [i \in 1..Len(sales) |->
                             IF i \in Included(r) THEN sales[i].discount_amount
                             ELSE 0]
        IN  calculateNetProfit(sales, saleItems, r).netProfit =
                SumSeq(margins) - SumSeq(discounts)

\* two units priced 50.00 that cost 30.00, 3.00 off the line and 5.00 off
\* the sale: the report shows 40.00 - 3.00 - 5.00
C27_Witness ==
    /\ Len(sales) = 1
    /\ Len(saleItems) = 1
    /\ saleItems[1].quantity = 2
    /\ saleItems[1].unit_price = 5000
    /\ saleItems[1].cost_price = 3000
    /\ saleItems[1].discount_amount = 300
    /\ sales[1].discount_amount = 500
    /\ calculateNetProfit(sales, saleItems, NoRange).netProfit = 3200

\* C28: getDailyProfitBreakdown returns one entry per calendar date that
\* has a completed sale in the range, and the entries' netProfit, revenue,
\* cost and transactionCount add up to what calculateNetProfit returns for
\* the same range.
C28_DailyBreakdownAddsUp ==
    \A r \in ReportRanges :
        LET daily == getDailyProfitBreakdown(sales, saleItems, r)
            report == calculateNetProfit(sales, saleItems, r)
            Sum(field) == SumSeq([k \in 1..Len(daily) |-> daily[k][field]])
        IN  /\ {daily[k].date : k \in 1..Len(daily)} =
                  {DateKey(sales[i].created_at) : i \in Included(r)}
            /\ \A k, l \in 1..Len(daily) :
                  daily[k].date = daily[l].date => k = l
            /\ Sum("netProfit") = report.netProfit
            /\ Sum("revenue") = report.totalRevenue
            /\ Sum("cost") = report.totalCost
            /\ Sum("transactionCount") = report.transactionCount

\* the last call named a customer who is not in the customer set
UnknownCustomerCall ==
    /\ last.op \in {"createKhataSale", "recordKhataPayment"}
    /\ ~HasId(last.pre.customers, last.customerId)

\* C33: createKhataSale and recordKhataPayment called with a customer id
\* that is not in the customer set fail with a not-found error and leave
\* sales, sale items, products, ledger entries and balances as they were.
C33_UnknownCustomerRejected ==
    UnknownCustomerCall =>
        /\ ~last.ok
        /\ last.error = "CustomerNotFound"
        /\ sales = last.pre.sales
        /\ saleItems = last.pre.saleItems
        /\ products = last.pre.products
        /\ ledgerEntries = last.pre.ledgerEntries
        /\ customers = last.pre.customers

\* a credit sale of a stocked product to customer 9, after an earlier sale
C33_Witness ==
    /\ UnknownCustomerCall
    /\ last.op = "createKhataSale"
    /\ last.customerId = 9
    /\ Len(last.items) > 0
    /\ Len(sales) = 1
    /\ ~last.ok

\* C37: for the same sales and the same range, the SQL netProfit query and
\* calculateNetProfit report the same gross profit, revenue, cost, total of
\* the sale-level discounts and transaction count.
C37_SqlAgreesWithMemory ==
    \A a, b \in StartTime..(StartTime + 1) :
        LET mem == calculateNetProfit(sales, saleItems, DateRange(a, b))
            sql == sqlNetProfit(sales, saleItems, a, b)
        IN  /\ sql.grossProfit = mem.grossProfit
            /\ sql.totalRevenue = mem.totalRevenue
            /\ sql.totalCost = mem.totalCost
            /\ sql.saleDiscounts = mem.grossProfit - mem.netProfit
            /\ sql.transactionCount = mem.transactionCount

(***************************************************************************)
(* SpecReceipt: one stock receipt applied to a product state, through each *)
(* of the receipt paths: performStockIn, the repository's stockIn, the     *)
(* inventory page's handleStockInSubmit and the stock-in script of         *)
(* retailcore_schema.sql.  wac_cost is held as an exact fraction.          *)
(***************************************************************************)
RcProductIds == {1, 9}
RcQuantities == {-1, 0, 1, 10}
RcUnitCosts == {-100, 4000, 10000}

\* the product states a receipt is applied to: quantity, WAC, active or not
RcStockLevels == {0, 2, 3}
RcWacs == {0, 3000, 3333}

\* ROUND(x, 2) of SQLite on hundredths: nearest, a half away from zero
SqlRound(r) == IF r.n >= 0 THEN MathRound(r) ELSE -MathRound(Rat(-r.n, r.d))

\* retailcore_schema.sql 2A: UPDATE products, then INSERT INTO
\* stock_movements ... SELECT from the row as the UPDATE left it
schemaStockIn(prods, moves, params, t) ==
    IF ~HasId(prods, params.productId)
    THEN [products |-> prods, stockMovements |-> moves]
    ELSE
    LET old == ById(prods, params.productId)
        stock_quantity == old.quantity + params.quantity
        cost_price_wac ==
            IF old.quantity = 0 \/ old.quantity + params.quantity = 0
            THEN IntRat(params.unitCost)
            ELSE IntRat(SqlRound(
                    Rat((old.quantity * old.wac_cost.n)
                        + (params.quantity * params.unitCost * old.wac_cost.d),
                        old.wac_cost.d * (old.quantity + params.quantity))))
        previous_wac ==
            IF stock_quantity - params.quantity = 0 THEN IntRat(0)
            ELSE IntRat(SqlRound(
                    Rat((stock_quantity * cost_price_wac.n)
                        - (params.quantity * params.unitCost
                             * cost_price_wac.d),
                        cost_price_wac.d
                            * (stock_quantity - params.quantity))))
        movement == [id |-> Len(moves) + 1, product_id |-> params.productId,
                     type |-> "STOCK_IN", quantity |-> params.quantity,
                     unit_cost |-> IntRat(params.unitCost),
                     previous_stock |-> stock_quantity - params.quantity,
                     new_stock |-> stock_quantity,
                     previous_wac |-> previous_wac,
                     new_wac |-> cost_price_wac,
                     reference_type |-> "PURCHASE", created_at |-> t]
    IN  [products |->
            [k \in 1..Len(prods) |->
                IF prods[k].id # params.productId THEN prods[k]
                ELSE [prods[k] EXCEPT !.quantity = stock_quantity,
                                      !.wac_cost = cost_price_wac]],
         stockMovements |-> Append(moves, movement)]

\* products as performStockIn takes them, wac_cost a number of paisa
InPaisa(prods) ==
    [k \in 1..Len(prods) |->
        [prods[k] EXCEPT !.wac_cost = MathRound(prods[k].wac_cost)]]

\* and back, wac_cost as a fraction
AsFractions(prods) ==
    [k \in 1..Len(prods) |->
        [prods[k] EXCEPT !.wac_cost = IntRat(prods[k].wac_cost)]]

InitReceipt ==
    /\ \E q \in RcStockLevels, w \in RcWacs, active \in BOOLEAN :
          products = << [UiProducts[1] EXCEPT !.quantity = q,
                                              !.wac_cost = IntRat(w),
                                              !.cost_price = w,
                                              !.is_active = active],
                        UiProducts[2] >>
    /\ customers = DEMO_CUSTOMERS
    /\ ledgerEntries = DEMO_LEDGER_ENTRIES
    /\ sales = <<>>
    /\ saleItems = <<>>
    /\ stockMovements = <<>>
    /\ cart = <<>>
    /\ now = StartTime
    /\ last = NoCall
    /\ db = NoDb
    /\ calls = <<>>

ReceiptFrame == UNCHANGED <<customers, ledgerEntries, sales, saleItems, cart,
                            now, db, calls>>

ReceiptCall(op, ok, error, p, q, c) ==
    [Call(op, ok, error) EXCEPT !.productId = p, !.quantity = q,
                                !.unitCost = c]

\* performStockIn called with a product id, a quantity and a unit cost
RcPerformStockIn ==
    \E p \in RcProductIds, q \in RcQuantities, c \in RcUnitCosts :
        LET r == performStockIn(InPaisa(products),
                     [productId |-> p, quantity |-> q, unitCost |-> c], now)
        IN  /\ last = NoCall
            /\ IF r.threw
               THEN /\ last' = ReceiptCall("performStockIn", FALSE, r.error,
                                           p, q, c)
                    /\ UNCHANGED <<products, stockMovements>>
               ELSE /\ products' = AsFractions(r.updatedProducts)
                    /\ stockMovements' = Append(stockMovements, r.stockMovement)
                    /\ last' = ReceiptCall("performStockIn", TRUE, "", p, q, c)
            /\ ReceiptFrame

\* the repository's stockIn with every statement accepted by the store
RcStockIn ==
    \E p \in RcProductIds, q \in RcQuantities, c \in RcUnitCosts :
        LET r == stockIn(products, stockMovements,
                     [product_id |-> p, quantity |-> q, unit_cost |-> c],
                     "none", now)
        IN  /\ last = NoCall
            /\ products' = r.products
            /\ stockMovements' = r.stockMovements
            /\ last' = ReceiptCall("stockIn", ~r.rejected, r.error, p, q, c)
            /\ ReceiptFrame

\* InventoryPage.handleStockInSubmit; StockInForm submits only a positive
\* quantity and a positive cost, for a product of the list
RcHandleStockInSubmit ==
    \E p \in RcProductIds, q \in RcQuantities, c \in RcUnitCosts :
        /\ last = NoCall
        /\ HasId(products, p) /\ q > 0 /\ c > 0
        /\ products' = handleStockInSubmit(products, p, q, c)
        /\ last' = ReceiptCall("handleStockInSubmit", TRUE, "", p, q, c)
        /\ UNCHANGED stockMovements
        /\ ReceiptFrame

\* the stock-in script of retailcore_schema.sql with its parameters replaced
RcSchemaStockIn ==
    \E p \in RcProductIds, q \in RcQuantities, c \in RcUnitCosts :
        LET r == schemaStockIn(products, stockMovements,
                     [productId |-> p, quantity |-> q, unitCost |-> c], now)
        IN  /\ last = NoCall
            /\ q > 0 /\ c >= 0
            /\ products' = r.products
            /\ stockMovements' = r.stockMovements
            /\ last' = ReceiptCall("schemaStockIn", TRUE, "", p, q, c)
            /\ ReceiptFrame

NextReceipt ==
    \/ RcPerformStockIn
    \/ RcStockIn
    \/ RcHandleStockInSubmit
    \/ RcSchemaStockIn

SpecReceipt == InitReceipt /\ [][NextReceipt]_vars

\* the receipt is one the inputs' constraints allow
ValidReceipt ==
    /\ HasId(last.pre.products, last.productId)
    /\ ById(last.pre.products, last.productId).is_active
    /\ last.quantity > 0
    /\ last.unitCost >= 0

\* the last call was a receipt that a movement records
ReceiptRecorded ==
    /\ last.op \in {"performStockIn", "stockIn", "schemaStockIn"}
    /\ last.ok
    /\ Len(stockMovements) = Len(last.pre.stockMovements) + 1

\* C15: the stock movement appended by a receipt of a positive quantity at
\* a cost that is not negative stores as previous WAC the WAC the product
\* had immediately before the update and as new WAC the WAC it has after it.
C15_MovementStoresActualWacs ==
    (ReceiptRecorded /\ ValidReceipt) =>
        LET m == stockMovements[Len(stockMovements)]
        IN  /\ {"previous_wac", "new_wac"} \subseteq DOMAIN m
            /\ m.previous_wac =
                   ById(last.pre.products, last.productId).wac_cost
            /\ m.new_wac = ById(products, last.productId).wac_cost

\* C16: for one product state and one (quantity, unit cost), performStockIn,
\* the repository's stockIn and handleStockInSubmit all store the same
\* wac_cost: the weighted average rounded to two decimals.
C16_PathsStoreRoundedWac ==
    (/\ last.op \in {"performStockIn", "stockIn", "handleStockInSubmit"}
     /\ last.ok
     /\ ValidReceipt) =>
        LET old == ById(last.pre.products, last.productId)
        IN  ById(products, last.productId).wac_cost =
                IntRat(MathRound(calculateWAC(old.quantity, old.wac_cost,
                                              last.quantity, last.unitCost)))

\* C17: a receipt through performStockIn or stockIn with a quantity that is
\* not positive, a negative unit cost, or a product that is missing or
\* inactive is rejected, and no product and no stock movement changes.
C17_InvalidReceiptRejected ==
    (last.op \in {"performStockIn", "stockIn"} /\ ~ValidReceipt) =>
        /\ ~last.ok
        /\ products = last.pre.products
        /\ stockMovements = last.pre.stockMovements

(***************************************************************************)
(* SpecCust: the customer operations of LedgerContext (addCustomer,        *)
(* updateCustomer) beside addLedgerEntry, each call run to its end before  *)
(* the next starts, with the database ready or not.                        *)
(***************************************************************************)
MaxCustOps == 2

\* customerData of addCustomer: credit_limit and credit_balance
CustNewData == {<<1000000, 0>>, <<1000000, 500000>>}

\* updates of updateCustomer: the fields that are given
CustUpdates ==
    { [credit_limit |-> 4000000],
      [credit_balance |-> 0],
      [is_active |-> FALSE],
      [credit_limit |-> 4000000, credit_balance |-> 700000] }

CustIds == {1, 4}
CustAmounts == {100000}

\* { ...c, ...updates }
Merge(c, updates) ==
    [f \in DOMAIN c |-> IF f \in DOMAIN updates THEN updates[f] ELSE c[f]]

\* addCustomer: INSERT and refreshCustomers when the database is ready,
\* the in-memory append otherwise; the new customer's name sorts last
addCustomer(custs, d, data) ==
    IF d.ready
    THEN LET d2 == [d EXCEPT !.customers = Append(@,
                        Customer(MaxId(d.customers) + 1, data[1], data[2]))]
         IN  [customers |-> refreshCustomers(custs, d2), db |-> d2]
    ELSE [customers |-> Append(custs,
                            Customer(MaxId(custs) + 1, data[1], data[2])),
          db |-> d]

\* the fields updateCustomer copies into its UPDATE statement
StoredUpdate(updates) ==
    [f \in DOMAIN updates \cap {"credit_limit", "credit_balance"} |->
        updates[f]]

\* updateCustomer: when the database is ready and a stored field is given,
\* UPDATE customers SET those fields and refreshCustomers; the in-memory
\* merge of every given field otherwise
updateCustomer(custs, d, id, updates) ==
    IF d.ready /\ DOMAIN StoredUpdate(updates) # {}
    THEN LET d2 == [d EXCEPT !.customers =
                      [k \in 1..Len(@) |->
                          IF @[k].id = id
                          THEN Merge(@[k], StoredUpdate(updates))
                          ELSE @[k]]]
         IN  [customers |-> refreshCustomers(custs, d2), db |-> d2]
    ELSE [customers |->
             [k \in 1..Len(custs) |->
                 IF custs[k].id = id THEN Merge(custs[k], updates)
                 ELSE custs[k]],
          db |-> d]

\* addLedgerEntry run from its call to its return
addLedgerEntry(entries, custs, d, entryData, t) ==
    LET call == [customer_id |-> entryData.customer_id,
                 type |-> entryData.type, amount |-> entryData.amount,
                 balance |-> entryData.balance, user_id |-> entryData.user_id,
                 ledgerEntries |-> entries, customers |-> custs]
        r == insertLedger(d, entryData, t)
        d2 == IF d.ready /\ r.ok THEN updateCustomerBalance(r.d, entryData)
              ELSE d
        m == addLedgerEntryInMemory(entries,
                 IF d.ready /\ r.ok THEN refreshCustomers(custs, d2)
                 ELSE custs,
                 call, t)
    IN  [ledgerEntries |-> m.ledgerEntries, customers |-> m.customers,
         db |-> d2]

InitCust ==
    /\ products = InitProducts
    /\ ledgerEntries = DEMO_LEDGER_ENTRIES
    /\ sales = <<>>
    /\ saleItems = <<>>
    /\ stockMovements = <<>>
    /\ cart = <<>>
    /\ now = StartTime
    /\ last = NoCall
    /\ \E ready \in BOOLEAN :
          /\ db = [inTransaction |-> FALSE, statements |-> <<>>,
                   ready |-> ready,
                   customers |-> IF ready THEN SeedCustomers ELSE <<>>,
                   ledgers |-> <<>>]
          \* the provider's first load has run when the database is ready
          /\ customers = refreshCustomers(DEMO_CUSTOMERS, db)
    /\ calls = <<>>

CustFrame == UNCHANGED <<products, sales, saleItems, stockMovements, cart,
                         calls>>

CustCall(op, id) == [Call(op, TRUE, "") EXCEPT !.customerId = id]

CustAddCustomer ==
    \E data \in CustNewData :
        LET r == addCustomer(customers, db, data)
        IN  /\ now < StartTime + MaxCustOps
            /\ customers' = r.customers
            /\ db' = r.db
            /\ last' = CustCall("addCustomer", NoCustomer)
            /\ now' = now + 1
            /\ UNCHANGED ledgerEntries
            /\ CustFrame

CustUpdateCustomer ==
    \E id \in CustIds, updates \in CustUpdates :
        LET r == updateCustomer(customers, db, id, updates)
        IN  /\ now < StartTime + MaxCustOps
            /\ customers' = r.customers
            /\ db' = r.db
            /\ last' = CustCall("updateCustomer", id)
            /\ now' = now + 1
            /\ UNCHANGED ledgerEntries
            /\ CustFrame

CustAddLedgerEntry ==
    \E c \in CustIds, isPayment \in BOOLEAN, a \in CustAmounts :
        LET r == addLedgerEntry(ledgerEntries, customers, db,
                     handlePaymentSubmit(customers, c, isPayment, a), now)
        IN  /\ now < StartTime + MaxCustOps
            /\ HasId(customers, c)
            /\ ledgerEntries' = r.ledgerEntries
            /\ customers' = r.customers
            /\ db' = r.db
            /\ last' = CustCall("addLedgerEntry", c)
            /\ now' = now + 1
            /\ CustFrame

NextCust ==
    \/ CustAddCustomer
    \/ CustUpdateCustomer
    \/ CustAddLedgerEntry

SpecCust == InitCust /\ [][NextCust]_vars

\* C21: a customer's credit_balance changes only in a step that also appends
\* a ledger entry for that customer; addCustomer and updateCustomer set or
\* change no balance.
C21_BalanceChangesWithEntry ==
    [][\A k \in 1..Len(customers') :
          LET id == customers'[k].id
          IN  customers'[k].credit_balance # getCustomerBalance(customers, id)
                  => /\ Len(ledgerEntries') = Len(ledgerEntries) + 1
                     /\ ledgerEntries'[Len(ledgerEntries')].customer_id = id]_vars

\* C31: getOutstandingBalances lists exactly the active customers with
\* credit_balance > 0, each once, largest balance first, each with
\* remainingCredit = credit_limit - credit_balance.
C31_OutstandingBalances ==
    LET rows == getOutstandingBalances(customers)
        owing == {k \in 1..Len(customers) :
                     /\ customers[k].is_active
                     /\ customers[k].credit_balance > 0}
    IN  /\ Len(rows) = Cardinality(owing)
        /\ {rows[i].customerId : i \in 1..Len(rows)} =
              {customers[k].id : k \in owing}
        /\ \A i \in 1..Len(rows) :
              \E k \in owing :
                  /\ customers[k].id = rows[i].customerId
                  /\ rows[i].amountOwed = customers[k].credit_balance
                  /\ rows[i].remainingCredit =
                        customers[k].credit_limit - customers[k].credit_balance
        /\ \A i, j \in 1..Len(rows) :
              i < j => rows[i].amountOwed >= rows[j].amountOwed

\* an inactive customer and one with no debt are left out, and a listed
\* customer is over the limit
C31_Witness ==
    LET rows == getOutstandingBalances(customers)
    IN  /\ \E k \in 1..Len(customers) :
              ~customers[k].is_active /\ customers[k].credit_balance > 0
        /\ \E k \in 1..Len(customers) :
              customers[k].is_active /\ customers[k].credit_balance = 0
        /\ \E i \in 1..Len(rows) : rows[i].remainingCredit < 0
        /\ Len(rows) >= 2

\* C36: after addLedgerEntry has completed with the database ready, the
\* customer's in-memory credit_balance equals the stored credit_balance.
C36_MemoryMatchesStore ==
    (/\ last.op = "addLedgerEntry"
     /\ db.ready
     /\ HasId(db.customers, last.customerId)) =>
        getCustomerBalance(customers, last.customerId) =
            ById(db.customers, last.customerId).credit_balance

(***************************************************************************)
(* SpecProd: creating and removing products through InventoryContext       *)
(* (saveProduct, removeProduct over db/database.ts, with localStorage      *)
(* mirroring the state) and through the product repository.                *)
(***************************************************************************)
MaxProdOps == 3

\* productData of a new product: selling price and cost
NewProductData == {<<9000, 6000>>}

ProdIds == {1, 2, 3}

\* getAllProducts of db/database.ts: the active rows
getActiveProducts(d) == SelectSeq(d.products, LAMBDA p : p.is_active)

\* refreshProducts: the state takes the table's active rows when there are
\* any
refreshProducts(prods, d) ==
    IF d.ready /\ Len(getActiveProducts(d)) > 0 THEN getActiveProducts(d)
    ELSE prods

\* UPDATE products SET is_active = 0 WHERE id = ?
softDelete(rows, id) ==
    [k \in 1..Len(rows) |->
        IF rows[k].id = id THEN [rows[k] EXCEPT !.is_active = FALSE]
        ELSE rows[k]]

\* saveProduct without an id: INSERT and refreshProducts when the database
\* is ready, an appended product numbered max id + 1 otherwise
saveProduct(prods, d, data) ==
    IF d.ready
    THEN LET d2 == [d EXCEPT
                      !.products = Append(@,
                          [Product(d.seq + 1, 0, data[2], data[1], 5)
                              EXCEPT !.cost_price = data[2]]),
                      !.seq = @ + 1]
         IN  [products |-> refreshProducts(prods, d2), db |-> d2]
    ELSE [products |-> Append(prods,
                          Product(MaxId(prods) + 1, 0, data[2], data[1], 5)),
          db |-> d]

\* removeProduct: deleteProduct of db/database.ts when the database is
\* ready, then the product is filtered out of the state
removeProduct(prods, d, productId) ==
    [products |-> SelectSeq(prods, LAMBDA p : p.id # productId),
     db |-> IF d.ready
            THEN [d EXCEPT !.products = softDelete(@, productId)]
            ELSE d]

\* the product repository: createProduct, deleteProduct, hardDeleteProduct
createProduct(d, data) ==
    [d EXCEPT !.repo = Append(@, Product(d.repoSeq + 1, 0, data[2], data[1], 5)),
              !.repoSeq = @ + 1]

deleteProduct(d, id) == [d EXCEPT !.repo = softDelete(@, id)]

hardDeleteProduct(d, id) ==
    [d EXCEPT !.repo = SelectSeq(@, LAMBDA p : p.id # id)]

InitProd ==
    /\ customers = <<>>
    /\ ledgerEntries = <<>>
    /\ sales = <<>>
    /\ saleItems = <<>>
    /\ stockMovements = <<>>
    /\ cart = <<>>
    /\ now = StartTime
    /\ last = NoCall
    /\ calls = <<>>
    /\ \E ready \in BOOLEAN :
          /\ db = [inTransaction |-> FALSE, statements |-> <<>>,
                   ready |-> ready,
                   products |-> IF ready THEN SeedProducts ELSE <<>>,
                   seq |-> IF ready THEN MaxId(SeedProducts) ELSE 0,
                   repo |-> SeedProducts,
                   repoSeq |-> MaxId(SeedProducts)]
          \* the provider's first load has run when the database is ready
          /\ products = refreshProducts(InitProducts, db)

ProdFrame == UNCHANGED <<customers, ledgerEntries, sales, saleItems,
                         stockMovements, cart, calls>>

ProdCall(op, id) == [NoCall EXCEPT !.op = op, !.productId = id]

SaveProduct ==
    \E data \in NewProductData :
        LET r == saveProduct(products, db, data)
        IN  /\ now < StartTime + MaxProdOps
            /\ products' = r.products
            /\ db' = r.db
            /\ last' = ProdCall("saveProduct", 0)
            /\ now' = now + 1
            /\ ProdFrame

RemoveProduct ==
    \E k \in 1..Len(products) :
        LET r == removeProduct(products, db, products[k].id)
        IN  /\ now < StartTime + MaxProdOps
            /\ products' = r.products
            /\ db' = r.db
            /\ last' = ProdCall("removeProduct", products[k].id)
            /\ now' = now + 1
            /\ ProdFrame

CreateProduct ==
    \E data \in NewProductData :
        /\ now < StartTime + MaxProdOps
        /\ db' = createProduct(db, data)
        /\ last' = ProdCall("createProduct", 0)
        /\ now' = now + 1
        /\ UNCHANGED products
        /\ ProdFrame

DeleteProduct ==
    \E id \in ProdIds :
        /\ now < StartTime + MaxProdOps
        /\ db' = deleteProduct(db, id)
        /\ last' = ProdCall("deleteProduct", id)
        /\ now' = now + 1
        /\ UNCHANGED products
        /\ ProdFrame

HardDeleteProduct ==
    \E id \in ProdIds :
        /\ now < StartTime + MaxProdOps
        /\ db' = hardDeleteProduct(db, id)
        /\ last' = ProdCall("hardDeleteProduct", id)
        /\ now' = now + 1
        /\ UNCHANGED products
        /\ ProdFrame

NextProd ==
    \/ SaveProduct
    \/ RemoveProduct
    \/ CreateProduct
    \/ DeleteProduct
    \/ HardDeleteProduct

SpecProd == InitProd /\ [][NextProd]_vars

\* the ids on record: in the table when the database is ready, in the
\* state mirrored to localStorage otherwise; and in the repository's table
ContextProductIds(prods, d) ==
    IF d.ready THEN {d.products[k].id : k \in 1..Len(d.products)}
    ELSE {prods[k].id : k \in 1..Len(prods)}

RepositoryProductIds(d) == {d.repo[k].id : k \in 1..Len(d.repo)}

\* C32: a product that is on record stays on record: removal only clears
\* is_active, and no operation deletes a product record.
C32_ProductsNeverDeleted ==
    [][/\ ContextProductIds(products, db) \subseteq
              ContextProductIds(products', db')
       /\ RepositoryProductIds(db) \subseteq RepositoryProductIds(db')]_vars

(***************************************************************************)
(* SpecReport: the report functions of reportService called between        *)
(* writes; a call is logged with what it returned, and the caller's arrays *)
(* are what the call left of them.                                         *)
(***************************************************************************)
MaxReportSales == 2
MaxReportCalls == 2

ReportOps == {"calculateNetProfit", "getDailyProfitBreakdown",
              "getLowStockAlerts", "getOutstandingBalances"}

\* the ranges a report is asked for; the reports without a range take NoRange
ReportCallArgs ==
    {<<op, r>> : op \in {"calculateNetProfit", "getDailyProfitBreakdown"},
                 r \in {NoRange, DateRange(StartTime, StartTime),
                        DateRange(StartTime, StartTime + Day)}}
    \cup {<<op, NoRange>> : op \in {"getLowStockAlerts",
                                     "getOutstandingBalances"}}

\* <<customerId, discount, milliseconds to the next call>> of a credit sale
ReportSaleArgs == {<<3, 0, 0>>, <<1, 500, Day>>}

\* the arrays a caller holds
Store ==
    [products |-> products, customers |-> customers, sales |-> sales,
     saleItems |-> saleItems, ledgerEntries |-> ledgerEntries]

\* a faulty variant: the alerts are sorted in the caller's own array, and
\* the profit report drops the sales it has read
runReport_InPlace(op, r, st) ==
    IF op = "calculateNetProfit"
    THEN [result |-> calculateNetProfit(st.sales, st.saleItems, r),
          store |-> [st EXCEPT !.sales = <<>>]]
    ELSE IF op = "getDailyProfitBreakdown"
    THEN [result |-> getDailyProfitBreakdown(st.sales, st.saleItems, r),
          store |-> st]
    ELSE IF op = "getLowStockAlerts"
    THEN [result |-> getLowStockAlerts(st.products),
          store |-> [st EXCEPT !.products =
                        SelectSeq(@, LAMBDA p : p.quantity = 0)
                        \o SelectSeq(@, LAMBDA p : p.quantity # 0)]]
    ELSE [result |-> getOutstandingBalances(st.customers), store |-> st]

\* a report call: what it returns, and the arrays it was given as it leaves
\* them (filter and map copy before any sort; nothing is assigned)
runReport(op, r, st) ==
    IF op = "calculateNetProfit"
    THEN [result |-> calculateNetProfit(st.sales, st.saleItems, r),
          store |-> st]
    ELSE IF op = "getDailyProfitBreakdown"
    THEN [result |-> getDailyProfitBreakdown(st.sales, st.saleItems, r),
          store |-> st]
    ELSE IF op = "getLowStockAlerts"
    THEN [result |-> getLowStockAlerts(st.products), store |-> st]
    ELSE [result |-> getOutstandingBalances(st.customers), store |-> st]

InitReport ==
    /\ products = InitProducts
    /\ customers = DEMO_CUSTOMERS
    /\ ledgerEntries = DEMO_LEDGER_ENTRIES
    /\ sales = <<>>
    /\ saleItems = <<>>
    /\ stockMovements = <<>>
    /\ cart = <<>>
    /\ now = StartTime
    /\ last = NoCall
    /\ db = NoDb
    /\ calls = <<>>

\* a write: a credit sale of one unit of product 2
RpCreateKhataSale ==
    \E a \in ReportSaleArgs :
        LET items == FnItems(<< <<2, 1, 0>> >>, products)
            params == [items |-> items, discount |-> a[2], amountPaid |-> 0,
                       customerId |-> a[1]]
            r == createKhataSale(params, products, customers, ledgerEntries,
                                 now)
        IN  /\ Len(sales) < MaxReportSales
            /\ ~r.threw
            /\ sales' = Append(sales, r.sale)
            /\ saleItems' = saleItems \o r.saleItems
            /\ products' = r.updatedProducts
            /\ customers' = r.updatedCustomers
            /\ ledgerEntries' = Append(ledgerEntries, r.newLedgerEntry)
            /\ now' = now + a[3]
            /\ calls' = <<>>
            /\ UNCHANGED <<stockMovements, cart, last, db>>

\* a report call on the arrays as they are
RpReport ==
    \E a \in ReportCallArgs :
        LET r == runReport(a[1], a[2], Store)
        IN  /\ Len(calls) < MaxReportCalls
            /\ calls' = Append(calls, [op |-> a[1], range |-> a[2],
                                       result |-> r.result])
            /\ products' = r.store.products
            /\ customers' = r.store.customers
            /\ sales' = r.store.sales
            /\ saleItems' = r.store.saleItems
            /\ ledgerEntries' = r.store.ledgerEntries
            /\ UNCHANGED <<stockMovements, cart, now, last, db>>

NextReport ==
    \/ RpCreateKhataSale
    \/ RpReport

SpecReport == InitReport /\ [][NextReport]_vars

MaxCreditOps == 2

CreditLimits == {0, 8000, 5000000}
CreditBalances == {0, 6000}
CreditSaleQtys == {1, 2}
CreditPayments == {4000, 20000}

InitCredit ==
    /\ products = << InitProducts[1], [InitProducts[2] EXCEPT !.quantity = 3] >>
    /\ \E limit \in CreditLimits, balance \in CreditBalances :
          customers = << Customer(1, limit, balance) >>
    /\ ledgerEntries = <<>>
    /\ sales = <<>>
    /\ saleItems = <<>>
    /\ stockMovements = <<>>
    /\ cart = <<>>
    /\ now = StartTime
    /\ last = NoCall
    /\ db = NoDb
    /\ calls = <<>>

CreditFrame == UNCHANGED <<stockMovements, cart, db, calls>>

\* createKhataSale of product 2 for customer 1
CrCreateKhataSale ==
    \E q \in CreditSaleQtys :
        LET items == FnItems(<< <<2, q, 0>> >>, products)
            params == [items |-> items, discount |-> 0, amountPaid |-> 0,
                       customerId |-> 1]
            r == createKhataSale(params, products, customers, ledgerEntries,
                                 now)
        IN  /\ Len(ledgerEntries) < MaxCreditOps
            /\ IF r.threw
               THEN /\ last' = [Call("createKhataSale", FALSE, r.error) EXCEPT
                                  !.customerId = 1, !.items = items]
                    /\ UNCHANGED <<products, customers, ledgerEntries, sales,
                                   saleItems, now>>
               ELSE /\ sales' = Append(sales, r.sale)
                    /\ saleItems' = saleItems \o r.saleItems
                    /\ products' = r.updatedProducts
                    /\ customers' = r.updatedCustomers
                    /\ ledgerEntries' = Append(ledgerEntries, r.newLedgerEntry)
                    /\ last' = [Call("createKhataSale", TRUE, "") EXCEPT
                                  !.customerId = 1, !.items = items,
                                  !.amount = r.sale.total]
                    /\ now' = now + 1
            /\ CreditFrame

\* recordKhataPayment for customer 1
CrRecordKhataPayment ==
    \E a \in CreditPayments :
        LET r == recordKhataPayment(1, a, customers, ledgerEntries, now)
        IN  /\ Len(ledgerEntries) < MaxCreditOps
            /\ IF r.threw
               THEN /\ last' = [Call("recordKhataPayment", FALSE, r.error)
                                  EXCEPT !.customerId = 1, !.amount = a]
                    /\ UNCHANGED <<customers, ledgerEntries, now>>
               ELSE /\ customers' = r.updatedCustomers
                    /\ ledgerEntries' = Append(ledgerEntries, r.newLedgerEntry)
                    /\ last' = [Call("recordKhataPayment", TRUE, "") EXCEPT
                                  !.customerId = 1, !.amount = a]
                    /\ now' = now + 1
            /\ UNCHANGED <<products, sales, saleItems>>
            /\ CreditFrame

NextCredit ==
    \/ CrCreateKhataSale
    \/ CrRecordKhataPayment

SpecCredit == InitCredit /\ [][NextCredit]_vars

\* what the customer of the last call owed before it, and the limit
PriorBalance == ById(last.pre.customers, last.customerId).credit_balance

PriorLimit == ById(last.pre.customers, last.customerId).credit_limit

\* C35: neither the credit limit nor a non-negative balance is enforced: a
\* credit sale that takes the balance over the limit succeeds, and so does
\* a payment larger than the balance, which leaves the balance negative.
C35_LimitAndSignNotEnforced ==
    /\ (/\ last.op = "createKhataSale"
        /\ PriorBalance
             + SumSeq([i \in 1..Len(last.items) |->
                          last.items[i].quantity * last.items[i].unitPrice])
             > PriorLimit) =>
           /\ last.ok
           /\ Len(sales) = Len(last.pre.sales) + 1
           /\ ById(customers, 1).credit_balance > PriorLimit
    /\ (last.op = "recordKhataPayment" /\ last.amount > PriorBalance) =>
           /\ last.ok
           /\ ById(customers, 1).credit_balance = PriorBalance - last.amount
           /\ ById(customers, 1).credit_balance < 0

\* a sale that went over a limit of 80.00, then a payment larger than the
\* debt
C35_Witness ==
    /\ last.op = "recordKhataPayment"
    /\ last.ok
    /\ Len(sales) = 1
    /\ PriorBalance > PriorLimit
    /\ PriorLimit = 8000
    /\ last.amount > PriorBalance
    /\ ById(customers, 1).credit_balance < 0

(***************************************************************************)
(* SpecParams: executeSQL and queryAll of db/database.ts.  A text is a     *)
(* sequence of characters; a parameter is null, a number or a string.      *)
(***************************************************************************)
MaxParamCalls == 2
MaxParamStringLen == 2
MaxParams == 2

ParamChars == {"a", "?", "'", "$"}

ParamStrings ==
    UNION {[1..n -> ParamChars] : n \in 0..MaxParamStringLen}

ParamValues ==
    {[kind |-> "null", num |-> 0, str |-> <<>>]}
        \cup {[kind |-> "number", num |-> n, str |-> <<>>] : n \in {7, 42}}
        \cup {[kind |-> "string", num |-> 0, str |-> t] : t \in ParamStrings}

ParamLists == UNION {[1..n -> ParamValues] : n \in 0..MaxParams}

\* statement texts: no placeholder, one, two apart, two in a row
ParamStatements ==
    { <<"a">>,
      <<"a", "?">>,
      <<"?", "a", "?">>,
      <<"a", "?", "?">> }

RECURSIVE FlattenSeq(_)
FlattenSeq(ss) == IF ss = <<>> THEN <<>> ELSE Head(ss) \o FlattenSeq(Tail(ss))

\* String(param) of a non-negative integer
RECURSIVE NumberToString(_)
NumberToString(n) ==
    LET digit == <<"0", "1", "2", "3", "4", "5", "6", "7", "8", "9">>
    IN  IF n < 10 THEN <<digit[n + 1]>>
        ELSE NumberToString(n \div 10) \o <<digit[(n % 10) + 1]>>

\* param.replace(/'/g, "''")
escapeQuotes(str) ==
    FlattenSeq([i \in 1..Len(str) |->
                   IF str[i] = "'" THEN <<"'", "'">> ELSE <<str[i]>>])

\* const value = param === null ? 'NULL' : typeof param === 'string' ?
\* `'${param.replace(/'/g, "''")}'` : String(param)
paramValue(param) ==
    CASE param.kind = "null" -> <<"N", "U", "L", "L">>
      [] param.kind = "string" -> <<"'">> \o escapeQuotes(param.str) \o <<"'">>
      [] OTHER -> NumberToString(param.num)

\* the replacement text String.prototype.replace builds from a replacement
\* string: $$ is a dollar sign, $& the match, $` the text before the match,
\* $' the text after it; any other character stands for itself
RECURSIVE getSubstitution(_, _, _, _)
getSubstitution(replacement, matched, before, after) ==
    IF replacement = <<>> THEN <<>>
    ELSE IF Head(replacement) = "$" /\ Len(replacement) >= 2
    THEN LET c == replacement[2]
             rest == SubSeq(replacement, 3, Len(replacement))
         IN  CASE c = "$" ->
                    <<"$">> \o getSubstitution(rest, matched, before, after)
               [] c = "&" ->
                    matched \o getSubstitution(rest, matched, before, after)
               [] c = "`" ->
                    before \o getSubstitution(rest, matched, before, after)
               [] c = "'" ->
                    after \o getSubstitution(rest, matched, before, after)
               [] OTHER ->
                    <<"$">> \o getSubstitution(Tail(replacement), matched,
                                               before, after)
    ELSE <<Head(replacement)>>
            \o getSubstitution(Tail(replacement), matched, before, after)

\* processedSQL.replace('?', value): the first '?' of the text as it is now
replaceFirst(text, value) ==
    LET at == {i \in 1..Len(text) : text[i] = "?"}
    IN  IF at = {} THEN text
        ELSE LET i == SetMin(at)
                 before == SubSeq(text, 1, i - 1)
                 after == SubSeq(text, i + 1, Len(text))
             IN  before \o getSubstitution(value, <<"?">>, before, after)
                        \o after

\* params.forEach(param => processedSQL = processedSQL.replace('?', value))
RECURSIVE processSQL(_, _)
processSQL(sql, params) ==
    IF params = <<>> THEN sql
    ELSE processSQL(replaceFirst(sql, paramValue(Head(params))), Tail(params))

\* executeSQL with a parameter list: throws without a database, else hands
\* the processed text to sqlite3.exec
executeSQLParams(d, sql, params) ==
    IF ~d.ready
    THEN [threw |-> TRUE, error |-> "Database not initialized", d |-> d,
          processedSQL |-> <<>>]
    ELSE [threw |-> FALSE, error |-> "",
          d |-> [d EXCEPT !.statements = Append(@, processSQL(sql, params))],
          processedSQL |-> processSQL(sql, params)]

\* queryAll: the same substitution, the rows collected from sqlite3.exec
queryAll(d, sql, params) ==
    IF ~d.ready
    THEN [threw |-> TRUE, error |-> "Database not initialized", d |-> d,
          processedSQL |-> <<>>]
    ELSE [threw |-> FALSE, error |-> "",
          d |-> [d EXCEPT !.statements = Append(@, processSQL(sql, params))],
          processedSQL |-> processSQL(sql, params)]

ParamCall(op, ok, sql, params, processedSQL) ==
    [op |-> op, ok |-> ok, sql |-> sql, params |-> params,
     processedSQL |-> processedSQL]

\* the caller's statement and parameter list are in calls[1]
InitParams ==
    /\ products = InitProducts
    /\ customers = DEMO_CUSTOMERS
    /\ ledgerEntries = DEMO_LEDGER_ENTRIES
    /\ sales = <<>>
    /\ saleItems = <<>>
    /\ stockMovements = <<>>
    /\ cart = <<>>
    /\ now = StartTime
    /\ last = ParamCall("none", TRUE, <<>>, <<>>, <<>>)
    /\ \E ready \in BOOLEAN : db = [ready |-> ready, statements |-> <<>>]
    /\ \E sql \in ParamStatements, params \in ParamLists :
          calls = << [sql |-> sql, params |-> params] >>

ParamsFrame == UNCHANGED <<products, customers, ledgerEntries, sales,
                           saleItems, stockMovements, cart, now, calls>>

ExecuteSQL ==
    /\ Len(db.statements) < MaxParamCalls
    /\ last.ok
    /\ LET r == executeSQLParams(db, calls[1].sql, calls[1].params)
       IN  /\ db' = r.d
           /\ last' = ParamCall("executeSQL", ~r.threw, calls[1].sql,
                                calls[1].params, r.processedSQL)
    /\ ParamsFrame

QueryAll ==
    /\ Len(db.statements) < MaxParamCalls
    /\ last.ok
    /\ LET r == queryAll(db, calls[1].sql, calls[1].params)
       IN  /\ db' = r.d
           /\ last' = ParamCall("queryAll", ~r.threw, calls[1].sql,
                                calls[1].params, r.processedSQL)
    /\ ParamsFrame

NextParams ==
    \/ ExecuteSQL
    \/ QueryAll

SpecParams == InitParams /\ [][NextParams]_vars

\* the statement text with its i-th '?' replaced by the i-th value
RECURSIVE Positional(_, _)
Positional(text, values) ==
    IF text = <<>> THEN <<>>
    ELSE IF Head(text) = "?" /\ values # <<>>
    THEN Head(values) \o Positional(Tail(text), Tail(values))
    ELSE <<Head(text)>> \o Positional(Tail(text), values)

\* C40: the text executeSQL and queryAll hand to the database is the
\* original statement with its i-th '?' replaced by the i-th parameter's
\* value, also when an earlier string parameter contains a '?'.
C40_PositionalSubstitution ==
    (last.op \in {"executeSQL", "queryAll"} /\ last.ok) =>
        last.processedSQL =
            Positional(last.sql, MapSeq(last.params, paramValue))

====
